---- MODULE Spec2Model ----
(***************************************************************************)
(* Model of scripts/arch_guard.py: the comment tokenizer                   *)
(* (strip_rust_comments), the content-rule matcher (find_matches, scan),   *)
(* the line-limit rule (scan_line_limits), the TypeData quarantine scan    *)
(* (scan_solver_typedata_quarantine) and the aggregation in main.          *)
(*                                                                         *)
(* A text is a sequence of symbols.  The symbols that drive the tokenizer  *)
(* are single characters: / * " ' \ r # and the newline.  "\f" is the form *)
(* feed, one of the characters str.splitlines() splits on and              *)
(* str.count("\n") does not.  The remaining symbols stand for lexemes that *)
(* contain none of the tokenizer's characters and that every regular       *)
(* expression of the program treats as a unit:                             *)
(*   "I" = .intern   "(" = (   "T" = TypeData   "c" = ::   "as" = as       *)
(*   "type" = type   "=" = =   ";" = ;   "A", "B" = identifiers            *)
(*   "x" = any other code character   " " = a blank                        *)
(***************************************************************************)
EXTENDS Integers, Sequences, FiniteSets, TLC

VARIABLES
    mode,         \* which function runs, and whether it has returned
    tok,          \* strip_rust_comments: its local variables
    fm,           \* find_matches: its arguments and what it returned
    fs,           \* the files under ROOT: path |-> [text, readable]
    walk,         \* the order in which the directory walk yields the files
    ll_limit,     \* scan_line_limits: its limit argument
    result,       \* what the scan function under study returned
    dirs,         \* the directories under ROOT that exist
    can_write,    \* whether the report file can be written
    args,         \* main: the parsed command line
    pc,           \* main: the statement it is at
    idx,          \* main: the index of the rule its loop is at
    visited,      \* main: the rules its loops have reached, with their hits
    failures,     \* main: the local variable failures
    total_hits,   \* main: the local variable total_hits
    payload,      \* main: the local variable payload
    report_file,  \* the text of the report file
    stdout,       \* the lines printed
    exit_code     \* the exit status of the process

mainVars ==
    <<dirs, can_write, args, pc, idx, visited, failures, total_hits, payload,
      report_file, stdout, exit_code>>

vars == <<mode, tok, fm, fs, walk, ll_limit, result, mainVars>>

\* ------------------------------------------------------------------ bounds
\* the longest text given to the tokenizer
MaxLen == 4

\* the longest text of comment markers given to the tokenizer
MaxCommentLen == 8

\* the largest number of fence characters and quotes after the r of a text
\* of raw-string delimiters given to the tokenizer
MaxRawLen == 8

\* the longest text of quotes, backslashes and comment markers given to the
\* tokenizer
MaxLiteralLen == 4

\* the largest number of fragments of a text given to find_matches
MaxFrags == 3

\* the largest number of fragments of a file the quarantine scan reads
MaxQFrags == 3

\* the largest number of fragments of a file scan_line_limits reads
MaxLlFrags == 4

\* --------------------------------------------------------------- sequences
\* chars[k] of the code, 0-based, "" when k is out of range
At(chars, k) == IF k >= 0 /\ k < Len(chars) THEN chars[k + 1] ELSE ""

\* ["#"] * k
Hashes(k) == [j \in 1..k |-> "#"]

RECURSIVE SeqsUpTo(_, _)
SeqsUpTo(S, k) ==
    IF k = 0 THEN {<<>>}
    ELSE LET shorter == SeqsUpTo(S, k - 1)
         IN  shorter \cup {Append(s, e) : s \in {t \in shorter : Len(t) = k - 1}, e \in S}

\* ------------------------------------------------- strip_rust_comments
\* what the comment states append for one character read
Blank_NoNewline(ch) == " "

Blank_Identity(ch) == ch

Blank(ch) == IF ch = "\n" THEN "\n" ELSE " "

\* what the literal states (string, char, raw_string) append for a character
Literal_Blanked(ch) == IF ch = "\n" THEN "\n" ELSE " "

Literal(ch) == ch

\* the while loop of the raw-string close: the number of "#" from index j,
\* at most cap of them
RECURSIVE CloseHashes(_, _, _)
CloseHashes(chars, j, cap) ==
    IF j < Len(chars) /\ At(chars, j) = "#" /\ cap > 0
    THEN 1 + CloseHashes(chars, j + 1, cap - 1)
    ELSE 0

\* the while loop of the raw-string open: the number of "#" from index j
RECURSIVE OpenHashes(_, _)
OpenHashes(chars, j) ==
    IF j < Len(chars) /\ At(chars, j) = "#"
    THEN 1 + OpenHashes(chars, j + 1)
    ELSE 0

\* the local variables of strip_rust_comments before the loop; role is the
\* history of the loop: for every character appended, the branch that
\* appended it
TokInit(text) ==
    [chars |-> text, i |-> 0, out |-> <<>>, state |-> "code",
     block_depth |-> 0, raw_hash_count |-> 0, role |-> <<>>]

Emit(s, o, r, adv) ==
    [s EXCEPT !.out = s.out \o o,
              !.role = s.role \o [k \in 1..Len(o) |-> r],
              !.i = s.i + adv]

LineCommentStep_EndsAtQuote(s) ==
    LET ch == At(s.chars, s.i)
    IN  [Emit(s, <<Blank(ch)>>, "line_comment", 1)
            EXCEPT !.state = IF ch \in {"\n", "\""} THEN "code" ELSE "line_comment"]

LineCommentStep(s) ==
    LET ch == At(s.chars, s.i)
    IN  [Emit(s, <<Blank(ch)>>, "line_comment", 1)
            EXCEPT !.state = IF ch = "\n" THEN "code" ELSE "line_comment"]

BlockCommentStep_Flat(s) ==
    LET ch  == At(s.chars, s.i)
        nxt == At(s.chars, s.i + 1)
    IN  IF ch = "*" /\ nxt = "/"
        THEN [Emit(s, <<" ", " ">>, "block_comment", 2)
                 EXCEPT !.block_depth = s.block_depth - 1, !.state = "code"]
        ELSE Emit(s, <<Blank(ch)>>, "block_comment", 1)

BlockCommentStep(s) ==
    LET ch  == At(s.chars, s.i)
        nxt == At(s.chars, s.i + 1)
    IN  IF ch = "/" /\ nxt = "*"
        THEN [Emit(s, <<" ", " ">>, "block_comment", 2)
                 EXCEPT !.block_depth = s.block_depth + 1]
        ELSE IF ch = "*" /\ nxt = "/"
        THEN [Emit(s, <<" ", " ">>, "block_comment", 2)
                 EXCEPT !.block_depth = s.block_depth - 1,
                        !.state = IF s.block_depth - 1 = 0 THEN "code"
                                  ELSE "block_comment"]
        ELSE Emit(s, <<Blank(ch)>>, "block_comment", 1)

QuotedStep_EscapeAlone(s, quote, inside) ==
    LET ch == At(s.chars, s.i)
    IN  IF ch = "\\" /\ s.i + 1 < Len(s.chars)
        THEN Emit(s, <<Literal(ch), Literal(At(s.chars, s.i + 1))>>, inside, 1)
        ELSE IF ch = quote
        THEN [Emit(s, <<ch>>, "close", 1) EXCEPT !.state = "code"]
        ELSE Emit(s, <<Literal(ch)>>, inside, 1)

QuotedStep_NoEscape(s, quote, inside) ==
    LET ch == At(s.chars, s.i)
    IN  IF ch = quote
        THEN [Emit(s, <<ch>>, "close", 1) EXCEPT !.state = "code"]
        ELSE Emit(s, <<Literal(ch)>>, inside, 1)

\* the string and the char state differ in the closing quote only
QuotedStep(s, quote, inside) ==
    LET ch == At(s.chars, s.i)
    IN  IF ch = "\\" /\ s.i + 1 < Len(s.chars)
        THEN Emit(s, <<Literal(ch), Literal(At(s.chars, s.i + 1))>>, inside, 2)
        ELSE IF ch = quote
        THEN [Emit(s, <<ch>>, "close", 1) EXCEPT !.state = "code"]
        ELSE Emit(s, <<Literal(ch)>>, inside, 1)

StringStep(s) == QuotedStep(s, "\"", "string")

CharStep(s) == QuotedStep(s, "'", "char")

RawStringStep_AnyFence(s) ==
    LET ch == At(s.chars, s.i)
    IN  IF ch = "\""
        THEN [Emit(s, <<ch>>, "close", 1) EXCEPT !.state = "code"]
        ELSE Emit(s, <<Literal(ch)>>, "raw_string", 1)

RawStringStep(s) ==
    LET ch     == At(s.chars, s.i)
        hashes == CloseHashes(s.chars, s.i + 1, s.raw_hash_count)
    IN  IF ch = "\"" /\ s.raw_hash_count = 0
        THEN [Emit(s, <<ch>>, "close", 1) EXCEPT !.state = "code"]
        ELSE IF ch = "\"" /\ s.raw_hash_count > 0 /\ hashes = s.raw_hash_count
        THEN [Emit(s, <<ch>> \o Hashes(hashes), "close", 1 + hashes)
                 EXCEPT !.state = "code"]
        ELSE Emit(s, <<Literal(ch)>>, "raw_string", 1)

CodeStep(s) ==
    LET ch     == At(s.chars, s.i)
        nxt    == At(s.chars, s.i + 1)
        hashes == OpenHashes(s.chars, s.i + 1)
        j      == s.i + 1 + hashes
    IN  IF ch = "/" /\ nxt = "/"
        THEN [Emit(s, <<" ", " ">>, "line_comment", 2)
                 EXCEPT !.state = "line_comment"]
        ELSE IF ch = "/" /\ nxt = "*"
        THEN [Emit(s, <<" ", " ">>, "block_comment", 2)
                 EXCEPT !.state = "block_comment", !.block_depth = 1]
        ELSE IF ch = "\""
        THEN [Emit(s, <<ch>>, "open", 1) EXCEPT !.state = "string"]
        ELSE IF ch = "'"
        THEN [Emit(s, <<ch>>, "open", 1) EXCEPT !.state = "char"]
        ELSE IF ch = "r" /\ j < Len(s.chars) /\ At(s.chars, j) = "\""
        THEN [Emit(s, <<"r">> \o Hashes(hashes) \o <<"\"">>, "open", hashes + 2)
                 EXCEPT !.state = "raw_string", !.raw_hash_count = hashes]
        ELSE Emit(s, <<ch>>, "code", 1)

\* one iteration of the while loop
TokStep(s) ==
    CASE s.state = "line_comment"  -> LineCommentStep(s)
      [] s.state = "block_comment" -> BlockCommentStep(s)
      [] s.state = "string"        -> StringStep(s)
      [] s.state = "char"          -> CharStep(s)
      [] s.state = "raw_string"    -> RawStringStep(s)
      [] OTHER                     -> CodeStep(s)

TokRunning(s) == s.i < Len(s.chars)

RECURSIVE TokRun(_)
TokRun(s) == IF TokRunning(s) THEN TokRun(TokStep(s)) ELSE s

strip_rust_comments(text) == TokRun(TokInit(text)).out

\* ------------------------------------------------------- text helpers
\* the symbols made of word characters only (\w); every other symbol holds
\* no word character
Word == {"T", "A", "B", "as", "type", "r", "N", "K", "Y", "S"}

\* the symbols \s matches and str.split() splits on
WS == {" ", "\n", "\f"}

\* the symbols str.splitlines() ends a line at
LineBreaks == {"\n", "\f"}

\* text[p], 1-based, "" when p is out of range
Sym(text, p) == IF p >= 1 /\ p <= Len(text) THEN text[p] ELSE ""

\* the first position from p on that holds no whitespace (\s*)
RECURSIVE SkipWS(_, _)
SkipWS(text, p) == IF Sym(text, p) \in WS THEN SkipWS(text, p + 1) ELSE p

\* the first position from p on that holds no word symbol (\w*)
RECURSIVE RunEnd(_, _)
RunEnd(text, p) == IF Sym(text, p) \in Word THEN RunEnd(text, p + 1) ELSE p

\* text[p..] starts with the sequence lit
StartsWith(text, p, lit) ==
    /\ p + Len(lit) - 1 <= Len(text)
    /\ \A k \in 1..Len(lit) : text[p + k - 1] = lit[k]

\* str.split(sep) for a set of one-symbol separators: n separators give
\* n + 1 pieces
RECURSIVE SplitOn(_, _)
SplitOn(text, seps) ==
    IF \A k \in 1..Len(text) : text[k] \notin seps
    THEN <<text>>
    ELSE LET k == CHOOSE j \in 1..Len(text) :
                     text[j] \in seps /\ \A m \in 1..(j - 1) : text[m] \notin seps
         IN  <<SubSeq(text, 1, k - 1)>> \o SplitOn(SubSeq(text, k + 1, Len(text)), seps)

\* the positions of lo..hi that hold a symbol of seps, ascending
RECURSIVE PositionsOf(_, _, _, _)
PositionsOf(text, seps, lo, hi) ==
    IF lo > hi THEN <<>>
    ELSE IF lo = hi THEN (IF text[lo] \in seps THEN <<lo>> ELSE <<>>)
    ELSE LET mid == (lo + hi) \div 2
         IN  PositionsOf(text, seps, lo, mid) \o PositionsOf(text, seps, mid + 1, hi)

\* the lines a text is cut into at the symbols of breaks: a final break
\* starts no further line
LinesAt(text, breaks) ==
    LET bs == PositionsOf(text, breaks, 1, Len(text))
        n  == Len(bs) + (IF Len(text) > 0 /\ text[Len(text)] \notin breaks THEN 1 ELSE 0)
    IN  [i \in 1..n |->
            SubSeq(text,
                   IF i = 1 THEN 1 ELSE bs[i - 1] + 1,
                   IF i <= Len(bs) THEN bs[i] - 1 ELSE Len(text))]

\* str.splitlines()
splitlines(text) == LinesAt(text, LineBreaks)

\* the number of lines the iteration over an open text file yields
FileLineCount(text) == Len(LinesAt(text, {"\n"}))

\* text.count("\n", 0, stop): stop is a 0-based end index
CountNewlines(text, stop) == Cardinality({k \in 1..stop : k <= Len(text) /\ text[k] = "\n"})

\* " ".join(statement.split())
RECURSIVE JoinWords(_)
JoinWords(text) ==
    LET a == SkipWS(text, 1)
    IN  IF a > Len(text) THEN <<>>
        ELSE LET b    == CHOOSE j \in (a + 1)..(Len(text) + 1) :
                             /\ Sym(text, j) \in WS \cup {""}
                             /\ \A m \in a..(j - 1) : text[m] \notin WS
                 rest == JoinWords(SubSeq(text, b, Len(text)))
             IN  SubSeq(text, a, b - 1) \o (IF rest = <<>> THEN <<>> ELSE <<" ">> \o rest)

\* str(n) for n >= 0
RECURSIVE Digits(_)
Digits(n) ==
    LET d == <<"0", "1", "2", "3", "4", "5", "6", "7", "8", "9">>[(n % 10) + 1]
    IN  IF n < 10 THEN <<d>> ELSE Digits(n \div 10) \o <<d>>

\* f"{rel}:{ln}"
HitString(rel, ln) == rel \o <<":">> \o Digits(ln)

\* ---------------------------------------- scan_solver_typedata_quarantine
\* direct_intern_re matched at position p: the position after the match, or 0
DirectInternEnd(text, p) ==
    LET a == SkipWS(text, p + 2)
        b == SkipWS(text, a + 1)
        e == IF StartsWith(text, b, <<"K", "c", "Y", "c", "T">>) THEN b + 5
             ELSE IF StartsWith(text, b, <<"S", "r", "c", "T">>) THEN b + 4
             ELSE IF Sym(text, b) = "T" THEN b + 1
             ELSE 0
        f == SkipWS(text, e)
    IN  IF /\ Sym(text, p) = "." /\ Sym(text, p + 1) = "N"
           /\ Sym(text, a) = "("
           /\ e # 0
           /\ Sym(text, f) = "c"
        THEN f + 1 ELSE 0

\* alias_re_intern of one alias matched at position p: the position after
\* the match, or 0
AliasInternEnd(text, p, alias) ==
    LET a == SkipWS(text, p + 2)
        b == SkipWS(text, a + 1)
        f == SkipWS(text, b + Len(alias))
    IN  IF /\ Sym(text, p) = "." /\ Sym(text, p + 1) = "N"
           /\ Sym(text, a) = "("
           /\ StartsWith(text, b, alias)
           /\ Sym(text, f) = "c"
        THEN f + 1 ELSE 0

\* alias_re matched at position p: <<position after the match, group(1)>>,
\* or <<0, <<>>>>
AliasReAt(text, p) ==
    LET a == SkipWS(text, p + 1)
        b == SkipWS(text, a + 1)
        e == RunEnd(text, b)
    IN  IF /\ Sym(text, p) = "T" /\ Sym(text, p - 1) \notin Word
           /\ a > p + 1 /\ Sym(text, a) = "as"
           /\ b > a + 1 /\ Sym(text, b) \in Word
        THEN <<e, SubSeq(text, b, e - 1)>> ELSE <<0, <<>>>>

\* alias_re.finditer from position p: the groups of the leftmost matches
\* that do not overlap
RECURSIVE AliasReFindIter(_, _)
AliasReFindIter(text, p) ==
    IF p > Len(text) THEN {}
    ELSE LET m == AliasReAt(text, p)
         IN  IF m[1] # 0 THEN {m[2]} \cup AliasReFindIter(text, m[1])
             ELSE AliasReFindIter(text, p + 1)

TypeAliasReAt_AnyRhs(st, p) ==
    LET a == SkipWS(st, p + 1)
        e == RunEnd(st, a)
        b == SkipWS(st, e)
    IN  IF /\ Sym(st, p) = "type" /\ Sym(st, p - 1) \notin Word
           /\ a > p + 1 /\ Sym(st, a) \in Word
           /\ Sym(st, b) = "="
           /\ \E z \in (b + 1)..Len(st) : st[z] = ";"
        THEN {SubSeq(st, a, e - 1)} ELSE {}

\* type_alias_re matched at position p of a statement: {group(1)} or {}
TypeAliasReAt(st, p) ==
    LET a == SkipWS(st, p + 1)
        e == RunEnd(st, a)
        b == SkipWS(st, e)
    IN  IF /\ Sym(st, p) = "type" /\ Sym(st, p - 1) \notin Word
           /\ a > p + 1 /\ Sym(st, a) \in Word
           /\ Sym(st, b) = "="
           /\ \E t \in (b + 1)..Len(st) :
                /\ st[t] = "T" /\ Sym(st, t - 1) \notin Word /\ Sym(st, t + 1) \notin Word
                /\ \A m \in (b + 1)..t : st[m] # ";"
                /\ \E z \in (t + 1)..Len(st) :
                     st[z] = ";" /\ \A m \in (t + 1)..(z - 1) : st[m] # ";"
        THEN {SubSeq(st, a, e - 1)} ELSE {}

\* type_alias_re.search(statement): the group of the leftmost match
TypeAliasReSearch(st) ==
    LET ps == {p \in 1..Len(st) : TypeAliasReAt(st, p) # {}}
    IN  IF ps = {} THEN {}
        ELSE TypeAliasReAt(st, CHOOSE p \in ps : \A o \in ps : p <= o)

\* the alias set of one file
Aliases(projection) ==
    LET statements == SplitOn(projection, {";"})
    IN  {<<"T">>}
          \cup AliasReFindIter(projection, 1)
          \cup UNION {TypeAliasReSearch(JoinWords(statements[k]) \o <<";">>) :
                        k \in 1..Len(statements)}

\* ------------------------------------------------------------ the corpus
\* A path relative to ROOT is a sequence of segments and "/" symbols.  The
\* file system is a function from the paths of its regular files to
\* [parts, readable], where parts are the pieces the text was written in.
EXCLUDE_DIRS == {".git", "target", "node_modules"}

RsNames ==
    {"a.rs", "b.rs", "intern.rs", "intern_intersection.rs", "intern_normalize.rs",
     "intern_template.rs"}

\* set(rel.split("/"))
Parts(rel) == {rel[k] : k \in 1..Len(rel)} \ {"/"}

\* the path lies under the directory base
Under(base, rel) == Len(rel) > Len(base) + 1 /\ StartsWith(rel, 1, base \o <<"/">>)

\* the paths iter_rs_files(base) yields
iter_rs_files(files, base) ==
    {rel \in DOMAIN files :
        /\ Under(base, rel)
        /\ rel[Len(rel)] \in RsNames
        /\ EXCLUDE_DIRS \cap Parts(rel) = {}}

\* the orders in which a directory walk can yield the paths of S
Orders(S) ==
    {o \in [1..Cardinality(S) -> S] : \A i, j \in 1..Cardinality(S) : o[i] = o[j] => i = j}

\* the ints of S from lo to hi, ascending
RECURSIVE Ascending(_, _, _)
Ascending(S, lo, hi) ==
    IF lo > hi THEN <<>>
    ELSE IF lo = hi THEN (IF lo \in S THEN <<lo>> ELSE <<>>)
    ELSE LET mid == (lo + hi) \div 2
         IN  Ascending(S, lo, mid) \o Ascending(S, mid + 1, hi)

\* the concatenation of the sequences of a sequence
RECURSIVE Concat(_)
Concat(ss) == IF ss = <<>> THEN <<>> ELSE Head(ss) \o Concat(Tail(ss))

\* ------------------------------------------------------------ find_matches
\* pattern.search(line) for the patterns of the rules modelled:
\*   raw_intern    \.intern\s*\(            (Checker boundary: raw interner access)
\*   solver_types  \btsz_solver::types::    (Checker boundary: direct solver internal imports)
\*   emitter_manifest  ^\s*tsz-checker\s*=  (Emitter manifest dependency freeze)
PatternSearchAt(pattern, line, p) ==
    CASE pattern = "raw_intern" ->
           /\ Sym(line, p) = "." /\ Sym(line, p + 1) = "N"
           /\ Sym(line, SkipWS(line, p + 2)) = "("
      [] pattern = "solver_types" ->
           /\ StartsWith(line, p, <<"S", "r", "c", "Y", "c">>)
           /\ Sym(line, p - 1) \notin Word
      [] pattern = "emitter_manifest" ->
           /\ p = 1
           /\ Sym(line, SkipWS(line, 1)) = "tsz-checker"
           /\ Sym(line, SkipWS(line, SkipWS(line, 1) + 1)) = "="
      [] OTHER -> FALSE

PatternSearch(pattern, line) == \E p \in 1..Len(line) : PatternSearchAt(pattern, line, p)

\* the two early returns of find_matches
Excluded_FilesOnly(rel, excludes) == rel \in excludes.exclude_files

Excluded(rel, excludes) ==
    \/ rel \in excludes.exclude_files
    \/ excludes.exclude_dirs # {} /\ excludes.exclude_dirs \cap Parts(rel) # {}

\* line.lstrip().startswith("//")
IsCommentLine(line) == StartsWith(line, SkipWS(line, 1), <<"/", "/">>)

\* the lines on which find_matches calls pattern.search
EvaluatedLines(file_text, rel, excludes) ==
    IF Excluded(rel, excludes) THEN {}
    ELSE LET lines == splitlines(file_text)
         IN  {i \in 1..Len(lines) : ~(excludes.ignore_comment_lines /\ IsCommentLine(lines[i]))}

find_matches(file_text, pattern, rel, excludes) ==
    LET lines == splitlines(file_text)
        evald == EvaluatedLines(file_text, rel, excludes)
    IN  Ascending({i \in evald : PatternSearch(pattern, lines[i])}, 1, Len(lines))

\* the text of a file: its parts one after the other
Text(file) == Concat(file.parts)

\* scan: the hits of the readable files, in the order of the walk
scan(files, order, pattern, excludes) ==
    Concat([k \in 1..Len(order) |->
              IF files[order[k]].readable
              THEN LET ms == find_matches(Text(files[order[k]]), pattern, order[k], excludes)
                   IN  [j \in 1..Len(ms) |-> HitString(order[k], ms[j])]
              ELSE <<>>])

\* -------------------------------------------------------- scan_line_limits
\* f"{rel}:{line_count} lines (limit {limit})"
LimitHitString_Plain(rel, line_count, limit) == rel \o <<":">> \o Digits(line_count)

LimitHitString(rel, line_count, limit) ==
    rel \o <<":">> \o Digits(line_count) \o <<" lines (limit ">> \o Digits(limit) \o <<")">>

OverLimit_OrEqual(line_count, limit) == line_count >= limit

OverLimit(line_count, limit) == line_count > limit

scan_line_limits(files, order, limit) ==
    Concat([k \in 1..Len(order) |->
              IF /\ files[order[k]].readable
                 /\ OverLimit(FileLineCount(Text(files[order[k]])), limit)
              THEN <<LimitHitString(order[k], FileLineCount(Text(files[order[k]])), limit)>>
              ELSE <<>>])

\* ---------------------------------------------------------------- sorted
\* the characters of the symbols hit strings are made of, as code points
CodePoints ==
    "crates" :> <<99, 114, 97, 116, 101, 115>> @@
    "/" :> <<47>> @@
    "tsz-solver" :> <<116, 115, 122, 45, 115, 111, 108, 118, 101, 114>> @@
    "tsz-checker" :> <<116, 115, 122, 45, 99, 104, 101, 99, 107, 101, 114>> @@
    "tsz-emitter" :> <<116, 115, 122, 45, 101, 109, 105, 116, 116, 101, 114>> @@
    "src" :> <<115, 114, 99>> @@
    "tests" :> <<116, 101, 115, 116, 115>> @@
    "query_boundaries" :> <<113, 117, 101, 114, 121, 95, 98, 111, 117, 110, 100, 97, 114, 105, 101, 115>> @@
    "a.rs" :> <<97, 46, 114, 115>> @@
    "b.rs" :> <<98, 46, 114, 115>> @@
    "intern.rs" :> <<105, 110, 116, 101, 114, 110, 46, 114, 115>> @@
    "intern_intersection.rs" :> <<105, 110, 116, 101, 114, 110, 95, 105, 110, 116, 101, 114, 115, 101, 99, 116, 105, 111, 110, 46, 114, 115>> @@
    "intern_normalize.rs" :> <<105, 110, 116, 101, 114, 110, 95, 110, 111, 114, 109, 97, 108, 105, 122, 101, 46, 114, 115>> @@
    "intern_template.rs" :> <<105, 110, 116, 101, 114, 110, 95, 116, 101, 109, 112, 108, 97, 116, 101, 46, 114, 115>> @@
    "Cargo.toml" :> <<67, 97, 114, 103, 111, 46, 116, 111, 109, 108>> @@
    ":" :> <<58>> @@
    " lines (limit " :> <<32, 108, 105, 110, 101, 115, 32, 40, 108, 105, 109, 105, 116, 32>> @@
    ")" :> <<41>> @@
    "0" :> <<48>> @@
    "1" :> <<49>> @@
    "2" :> <<50>> @@
    "3" :> <<51>> @@
    "4" :> <<52>> @@
    "5" :> <<53>> @@
    "6" :> <<54>> @@
    "7" :> <<55>> @@
    "8" :> <<56>> @@
    "9" :> <<57>>

\* the code points of a string
RECURSIVE Chars(_)
Chars(str) == IF str = <<>> THEN <<>> ELSE CodePoints[Head(str)] \o Chars(Tail(str))

\* a < b for two sequences of code points
RECURSIVE CodesLess(_, _)
CodesLess(a, b) ==
    IF b = <<>> THEN FALSE
    ELSE IF a = <<>> THEN TRUE
    ELSE IF Head(a) # Head(b) THEN Head(a) < Head(b)
    ELSE CodesLess(Tail(a), Tail(b))

\* a < b for two strings, as Python compares str
StrLess_ShorterFirst(a, b) ==
    \/ Len(Chars(a)) < Len(Chars(b))
    \/ Len(Chars(a)) = Len(Chars(b)) /\ CodesLess(Chars(a), Chars(b))

StrLess(a, b) == CodesLess(Chars(a), Chars(b))

\* sorted(list): insertion of x before the first greater element
RECURSIVE Insert(_, _)
Insert(sorted, x) ==
    IF sorted = <<>> THEN <<x>>
    ELSE IF StrLess(x, Head(sorted)) THEN <<x>> \o sorted
    ELSE <<Head(sorted)>> \o Insert(Tail(sorted), x)

RECURSIVE SortStrings(_)
SortStrings(list) == IF list = <<>> THEN <<>> ELSE Insert(SortStrings(Tail(list)), Head(list))

\* the elements of a set in some order
RECURSIVE SetToSeq(_)
SetToSeq(S) ==
    IF S = {} THEN <<>>
    ELSE LET x == CHOOSE y \in S : TRUE IN <<x>> \o SetToSeq(S \ {x})

\* ------------------------------------ scan_solver_typedata_quarantine, files
SolverBase == <<"crates", "/", "tsz-solver">>

SOLVER_TYPEDATA_QUARANTINE_ALLOWLIST ==
    {SolverBase \o <<"/", "src", "/", "intern.rs">>,
     SolverBase \o <<"/", "src", "/", "intern_intersection.rs">>,
     SolverBase \o <<"/", "src", "/", "intern_normalize.rs">>,
     SolverBase \o <<"/", "src", "/", "intern_template.rs">>}

\* rel.endswith(suffix)
EndsWith(rel, suffix) ==
    Len(rel) >= Len(suffix) /\ StartsWith(rel, Len(rel) - Len(suffix) + 1, suffix)

\* the files the quarantine scan passes over
QuarantineSkipped_AllowlistOnly(rel) ==
    \E allow \in SOLVER_TYPEDATA_QUARANTINE_ALLOWLIST : EndsWith(rel, allow)

QuarantineSkipped(rel) ==
    \/ \E k \in 1..(Len(rel) - 2) : rel[k] = "/" /\ rel[k + 1] = "tests" /\ rel[k + 2] = "/"
    \/ \E allow \in SOLVER_TYPEDATA_QUARANTINE_ALLOWLIST : EndsWith(rel, allow)

\* line_idx + 1 of a match that starts at position p
QuarantineLine_OfArgument(projection, p) ==
    CountNewlines(projection, SkipWS(projection, SkipWS(projection, p + 2) + 1) - 1) + 1

QuarantineLine(projection, p) == CountNewlines(projection, p - 1) + 1

\* the start positions of the matches of direct_intern_re
DirectStarts(projection) ==
    {p \in 1..Len(projection) : DirectInternEnd(projection, p) # 0}

\* the start positions of the matches of alias_re_intern for one alias
AliasStarts(projection, alias) ==
    {p \in 1..Len(projection) : AliasInternEnd(projection, p, alias) # 0}

\* the strings one file passes to hits.add, in the order of the calls: the
\* direct matches, then the matches of every alias other than TypeData, the
\* aliases taken in the order the set aliases is iterated in
QuarantineAddsIn(rel, text, aliases) ==
    LET projection == strip_rust_comments(text)
        HitsAt(ps) == LET asc == Ascending(ps, 1, Len(projection))
                      IN  [k \in 1..Len(asc) |-> HitString(rel, QuarantineLine(projection, asc[k]))]
    IN  HitsAt(DirectStarts(projection))
          \o Concat([k \in 1..Len(aliases) |-> HitsAt(AliasStarts(projection, aliases[k]))])

QuarantineAdds(rel, text) ==
    QuarantineAddsIn(rel, text, SetToSeq(Aliases(strip_rust_comments(text)) \ {<<"T">>}))

\* hits = set(), hits.add(...), sorted(hits)
SortedHits_NoDedup(adds) == SortStrings(adds)

SortedHits(adds) == SortStrings(SetToSeq({adds[k] : k \in 1..Len(adds)}))

scan_solver_typedata_quarantine(files, order) ==
    SortedHits(Concat([k \in 1..Len(order) |->
                         IF QuarantineSkipped(order[k]) \/ ~files[order[k]].readable
                         THEN <<>>
                         ELSE QuarantineAdds(order[k], Text(files[order[k]]))]))

\* ------------------------------------------------ the tokenizer, stepwise
TokAlphabet == {"/", "*", "\n", "\"", "'", "\\", "r", "#", "x"}

TokTexts == SeqsUpTo(TokAlphabet, MaxLen)

TokStart ==
    /\ mode = "idle"
    /\ mode' = "tok"
    /\ UNCHANGED <<tok, fm, fs, walk, ll_limit, result, mainVars>>

TokLineComment ==
    /\ mode = "tok" /\ TokRunning(tok) /\ tok.state = "line_comment"
    /\ tok' = LineCommentStep(tok)
    /\ UNCHANGED <<mode, fm, fs, walk, ll_limit, result, mainVars>>

TokBlockComment ==
    /\ mode = "tok" /\ TokRunning(tok) /\ tok.state = "block_comment"
    /\ tok' = BlockCommentStep(tok)
    /\ UNCHANGED <<mode, fm, fs, walk, ll_limit, result, mainVars>>

TokString ==
    /\ mode = "tok" /\ TokRunning(tok) /\ tok.state = "string"
    /\ tok' = StringStep(tok)
    /\ UNCHANGED <<mode, fm, fs, walk, ll_limit, result, mainVars>>

TokChar ==
    /\ mode = "tok" /\ TokRunning(tok) /\ tok.state = "char"
    /\ tok' = CharStep(tok)
    /\ UNCHANGED <<mode, fm, fs, walk, ll_limit, result, mainVars>>

TokRawString ==
    /\ mode = "tok" /\ TokRunning(tok) /\ tok.state = "raw_string"
    /\ tok' = RawStringStep(tok)
    /\ UNCHANGED <<mode, fm, fs, walk, ll_limit, result, mainVars>>

TokCode ==
    /\ mode = "tok" /\ TokRunning(tok) /\ tok.state = "code"
    /\ tok' = CodeStep(tok)
    /\ UNCHANGED <<mode, fm, fs, walk, ll_limit, result, mainVars>>

TokReturn ==
    /\ mode = "tok" /\ ~TokRunning(tok)
    /\ mode' = "returned"
    /\ UNCHANGED <<tok, fm, fs, walk, ll_limit, result, mainVars>>

\* the values of the variables a specification does not use
NoTok == TokInit(<<>>)

NoFm == [file_text |-> <<>>, pattern |-> "", rel |-> <<>>,
         excludes |-> [exclude_files |-> {}, exclude_dirs |-> {}, ignore_comment_lines |-> FALSE],
         matches |-> <<>>, evals |-> {}]

NoFs == <<>>

NoPayload == [status |-> "", total_hits |-> 0, failures |-> <<>>]

NoArgs == [json |-> FALSE, json_report |-> ""]

\* main is not running
NoMain ==
    /\ dirs = {} /\ can_write = TRUE /\ args = NoArgs
    /\ pc = "" /\ idx = 0 /\ visited = <<>> /\ failures = <<>> /\ total_hits = 0
    /\ payload = NoPayload /\ report_file = <<>> /\ stdout = <<>> /\ exit_code = -1

TokInitState ==
    /\ mode = "idle"
    /\ tok \in {TokInit(t) : t \in TokTexts}
    /\ fm = NoFm /\ fs = NoFs /\ walk = <<>> /\ ll_limit = 0 /\ result = <<>>
    /\ NoMain

TokNext ==
    \/ TokStart
    \/ TokLineComment
    \/ TokBlockComment
    \/ TokString
    \/ TokChar
    \/ TokRawString
    \/ TokCode
    \/ TokReturn

SpecTok == TokInitState /\ [][TokNext]_vars

\* ---------------------------- the tokenizer on longer texts of few characters
\* texts of comment markers
CommentAlphabet == {"/", "*"}

\* texts of fence characters and quotes after a raw-string prefix
RawAlphabet == {"#", "\""}

RawTexts == {<<"r">> \o t : t \in SeqsUpTo(RawAlphabet, MaxRawLen)}

\* texts of quotes, backslashes, comment markers, newlines and the letter r
LiteralAlphabet == {"\\", "\"", "'", "/", "*", "\n", "r"}

TokLongTexts ==
    SeqsUpTo(CommentAlphabet, MaxCommentLen) \cup RawTexts
      \cup SeqsUpTo(LiteralAlphabet, MaxLiteralLen)

TokLongInitState ==
    /\ mode = "idle"
    /\ tok \in {TokInit(t) : t \in TokLongTexts}
    /\ fm = NoFm /\ fs = NoFs /\ walk = <<>> /\ ll_limit = 0 /\ result = <<>>
    /\ NoMain

SpecTokLong == TokLongInitState /\ [][TokNext]_vars

\* the loop is sequential code: it takes its next step as long as it has one
SpecTokFair == SpecTokLong /\ WF_vars(TokNext)


\* ------------------------------------------- find_matches on one file
\* the texts made of at most k of the fragments frags
RECURSIVE TextsOf(_, _)
TextsOf(frags, k) ==
    IF k = 0 THEN {<<>>}
    ELSE TextsOf(frags, k - 1) \cup {t \o f : t \in TextsOf(frags, k - 1), f \in frags}

FmFragments ==
    {<<".", "N", "(">>, <<"S", "r", "c", "Y", "c">>, <<"/", "/">>,
     <<"\n">>, <<"\f">>, <<" ">>, <<"x">>}

CheckerSrc == <<"crates", "/", "tsz-checker", "/", "src">>

FmRels ==
    {CheckerSrc \o <<"/", "a.rs">>,
     CheckerSrc \o <<"/", "tests", "/", "a.rs">>,
     CheckerSrc \o <<"/", "query_boundaries", "/", "a.rs">>,
     <<"crates", "/", "tsz-checker", "/", "tests", "/", "b.rs">>}

\* the exclusion policies of CHECKS: none, exclude_dirs, exclude_dirs with
\* ignore_comment_lines, exclude_files with ignore_comment_lines
FmExcludes ==
    {[exclude_files |-> {}, exclude_dirs |-> {}, ignore_comment_lines |-> FALSE],
     [exclude_files |-> {}, exclude_dirs |-> {"tests"}, ignore_comment_lines |-> FALSE],
     [exclude_files |-> {}, exclude_dirs |-> {"query_boundaries", "tests"},
      ignore_comment_lines |-> TRUE],
     [exclude_files |-> {CheckerSrc \o <<"/", "query_boundaries", "/", "a.rs">>},
      exclude_dirs |-> {}, ignore_comment_lines |-> TRUE]}

FmInitState ==
    /\ mode = "idle"
    /\ fm \in [file_text : TextsOf(FmFragments, MaxFrags),
               pattern : {"raw_intern", "solver_types"},
               rel : FmRels,
               excludes : FmExcludes,
               matches : {<<>>},
               evals : {{}}]
    /\ tok = NoTok /\ fs = NoFs /\ walk = <<>> /\ ll_limit = 0 /\ result = <<>>
    /\ NoMain

FindMatches ==
    /\ mode = "idle"
    /\ mode' = "returned"
    /\ fm' = [fm EXCEPT
                !.matches = find_matches(fm.file_text, fm.pattern, fm.rel, fm.excludes),
                !.evals = EvaluatedLines(fm.file_text, fm.rel, fm.excludes)]
    /\ UNCHANGED <<tok, fs, walk, ll_limit, result, mainVars>>

FmNext == FindMatches

SpecFm == FmInitState /\ [][FmNext]_vars

\* ------------------------------------------------- the quarantine scan
\* the sequences of at most k of the fragments frags
RECURSIVE PartsOf(_, _)
PartsOf(frags, k) ==
    IF k = 0 THEN {<<>>}
    ELSE PartsOf(frags, k - 1)
           \cup {Append(t, f) : t \in {u \in PartsOf(frags, k - 1) : Len(u) = k - 1}, f \in frags}

\* n empty lines
EmptyLines(n) == [k \in 1..n |-> "\n"]

\* .intern(TypeData::   .intern(Al::   .intern(Bo::
DirectCall == <<".", "N", "(", "T", "c">>

AliasCallA == <<".", "N", "(", "A", "c">>

AliasCallB == <<".", "N", "(", "B", "c">>

\* .intern(    with the argument Al:: on the next line
MultilineCallA == <<".", "N", "(", "\n", " ", "A", "c">>

\* TypeData as Al;   type Bo =TypeData;
ImportAlias == <<"T", " ", "as", " ", "A", ";">>

\* the grouped import  +     (a brace, the rename on the next line, a comma,
\*                     TypeData as Al+     the closing brace on a third line)
\*                     +;
GroupedImport == <<"x", "\n", " ", "T", " ", "as", " ", "A", "x", "\n", "x", ";">>

TypeAlias == <<"type", " ", "B", " ", "=", "T", ";">>

\* //.intern(TypeData::   /*.intern(TypeData::*/
LineCommentedCall == <<"/", "/">> \o DirectCall

BlockCommentedCall == <<"/", "*">> \o DirectCall \o <<"*", "/">>

\* a lifetime 'Al followed by a blank, the char literal '+', the string "+"
Lifetime == <<"'", "A", " ">>

CharLiteral == <<"'", "x", "'">>

StringLiteral == <<"\"", "x", "\"">>

\* the string "'/*"
StringAposComment == <<"\"", "'", "/", "*", "\"">>

\* the call and the renames inside literals:  ".intern(TypeData::"
\* r#".intern(TypeData::"#   '.intern(TypeData::'   "TypeData as Al"
\* "type Bo =TypeData;"
StringCall == <<"\"">> \o DirectCall \o <<"\"">>

RawStringCall == <<"r", "#", "\"">> \o DirectCall \o <<"\"", "#">>

CharCall == <<"'">> \o DirectCall \o <<"'">>

StringImport == <<"\"", "T", " ", "as", " ", "A", "\"">>

StringTypeAlias == <<"\"">> \o TypeAlias \o <<"\"">>

\* type Bo =Al;   an alias of the alias Al
AliasOfAlias == <<"type", " ", "B", " ", "=", "A", ";">>

CallFragments == {DirectCall, AliasCallA, AliasCallB, MultilineCallA}

QFragments ==
    {DirectCall, AliasCallA, AliasCallB, MultilineCallA, ImportAlias, GroupedImport,
     TypeAlias, LineCommentedCall, <<"\n">>}

QcFragments ==
    {LineCommentedCall, BlockCommentedCall, Lifetime, CharLiteral, StringLiteral,
     StringAposComment, ImportAlias, DirectCall, <<"\n">>}

QsFragments ==
    {StringCall, RawStringCall, CharCall, StringImport, StringTypeAlias, AliasCallA,
     AliasCallB, <<"\n">>}

SolverA == SolverBase \o <<"/", "src", "/", "a.rs">>

SolverB == SolverBase \o <<"/", "src", "/", "b.rs">>

SolverIntern == SolverBase \o <<"/", "src", "/", "intern.rs">>

\* a file under a tests directory, and a file whose path ends with an
\* allow-listed path without being one
SolverTests == SolverBase \o <<"/", "src", "/", "tests", "/", "a.rs">>

SolverNestedIntern == SolverBase \o <<"/", "src", "/">> \o SolverIntern

ExemptRels == {SolverIntern, SolverTests, SolverNestedIntern}

\* what such a file holds: up to two calls or renames
ExemptParts == PartsOf(CallFragments \cup {ImportAlias}, 2)

\* crates/tsz-solver holds a.rs, written from the fragments, and b.rs with a
\* call on its second and on its tenth line, readable or not; or a.rs with at
\* most one call, b.rs and one of the exempt files
QCorpus(frags) ==
    {(SolverA :> [parts |-> ps, readable |-> TRUE])
        @@ (SolverB :> [parts |-> <<<<"\n">>, DirectCall, EmptyLines(8), DirectCall>>,
                        readable |-> rb]) :
     ps \in PartsOf(frags, MaxQFrags), rb \in BOOLEAN}
    \cup
    {(SolverA :> [parts |-> ps, readable |-> TRUE])
        @@ (SolverB :> [parts |-> <<<<"\n">>, DirectCall, EmptyLines(8), DirectCall>>,
                        readable |-> rb])
        @@ (e :> [parts |-> ep, readable |-> TRUE]) :
     ps \in {<<>>, <<DirectCall>>}, rb \in BOOLEAN, e \in ExemptRels, ep \in ExemptParts}

QInitState ==
    /\ mode = "idle"
    /\ fs \in QCorpus(QFragments)
    /\ tok = NoTok /\ fm = NoFm /\ walk = <<>> /\ ll_limit = 0 /\ result = <<>>
    /\ NoMain

QcInitState ==
    /\ mode = "idle"
    /\ fs \in QCorpus(QcFragments)
    /\ tok = NoTok /\ fm = NoFm /\ walk = <<>> /\ ll_limit = 0 /\ result = <<>>
    /\ NoMain

\* a.rs written from renames and calls through the aliases; b.rs holds either
\* the calls or the renames
QaFragments == {ImportAlias, TypeAlias, AliasOfAlias, AliasCallA, AliasCallB, <<"\n">>}

QaOther == {<<AliasCallA, <<"\n">>, AliasCallB>>, <<ImportAlias, TypeAlias>>}

QaCorpus ==
    {(SolverA :> [parts |-> ps, readable |-> TRUE])
        @@ (SolverB :> [parts |-> pb, readable |-> TRUE]) :
     ps \in PartsOf(QaFragments, MaxQFrags), pb \in QaOther}

QaInitState ==
    /\ mode = "idle"
    /\ fs \in QaCorpus
    /\ tok = NoTok /\ fm = NoFm /\ walk = <<>> /\ ll_limit = 0 /\ result = <<>>
    /\ NoMain

QsInitState ==
    /\ mode = "idle"
    /\ fs \in QCorpus(QsFragments)
    /\ tok = NoTok /\ fm = NoFm /\ walk = <<>> /\ ll_limit = 0 /\ result = <<>>
    /\ NoMain

QuarantineScan ==
    /\ mode = "idle"
    /\ mode' = "returned"
    /\ \E o \in Orders(iter_rs_files(fs, SolverBase)) :
         /\ walk' = o
         /\ result' = scan_solver_typedata_quarantine(fs, o)
    /\ UNCHANGED <<tok, fm, fs, ll_limit, mainVars>>

QNext == QuarantineScan

SpecQ == QInitState /\ [][QNext]_vars

SpecQc == QcInitState /\ [][QNext]_vars

SpecQs == QsInitState /\ [][QNext]_vars

SpecQa == QaInitState /\ [][QNext]_vars

\* ---------------------------------------------------- the line-limit scan
LlFragments == {<<"x">>, <<"\n">>, <<"\f">>}

CheckerA == CheckerSrc \o <<"/", "a.rs">>

CheckerB == CheckerSrc \o <<"/", "tests", "/", "b.rs">>

\* the limit of "Checker boundary: src files must stay under 2000 LOC"
CheckerLineLimit == 2000

\* crates/tsz-checker/src holds a.rs, written from the fragments or 2000 or
\* 2001 lines long, and tests/b.rs of two lines, readable or not
LlCorpus ==
    {(CheckerA :> [parts |-> ps, readable |-> ra])
        @@ (CheckerB :> [parts |-> <<<<"x">>, <<"\n">>, <<"x">>>>, readable |-> rb]) :
     ps \in PartsOf(LlFragments, MaxLlFrags)
              \cup {<<EmptyLines(CheckerLineLimit)>>, <<EmptyLines(CheckerLineLimit + 1)>>},
     ra \in BOOLEAN, rb \in BOOLEAN}

LlInitState ==
    /\ mode = "idle"
    /\ fs \in LlCorpus
    /\ ll_limit \in {0, 1, 2, CheckerLineLimit}
    /\ tok = NoTok /\ fm = NoFm /\ walk = <<>> /\ result = <<>>
    /\ NoMain

ScanLineLimits ==
    /\ mode = "idle"
    /\ mode' = "returned"
    /\ \E o \in Orders(iter_rs_files(fs, CheckerSrc)) :
         /\ walk' = o
         /\ result' = scan_line_limits(fs, o, ll_limit)
    /\ UNCHANGED <<tok, fm, fs, ll_limit, mainVars>>

LlNext == ScanLineLimits

SpecLl == LlInitState /\ [][LlNext]_vars

\* -------------------------------------------------------------------- main
\* The rule registry: of the content rules of CHECKS the two of lines 58-63
\* and 99-104, of MANIFEST_CHECKS the first, LINE_LIMIT_CHECKS as it is.
CheckerBase == <<"crates", "/", "tsz-checker">>

CHECKS ==
    <<[name |-> "Checker boundary: direct solver internal imports",
       base |-> CheckerBase, pattern |-> "solver_types",
       excludes |-> [exclude_files |-> {}, exclude_dirs |-> {"tests"},
                     ignore_comment_lines |-> FALSE]],
      [name |-> "Checker boundary: raw interner access",
       base |-> CheckerBase, pattern |-> "raw_intern",
       excludes |-> [exclude_files |-> {}, exclude_dirs |-> {"tests"},
                     ignore_comment_lines |-> FALSE]]>>

EmitterManifest == <<"crates", "/", "tsz-emitter", "/", "Cargo.toml">>

MANIFEST_CHECKS ==
    <<[name |-> "Emitter manifest dependency freeze",
       manifest_path |-> EmitterManifest, pattern |-> "emitter_manifest"]>>

LINE_LIMIT_CHECKS ==
    <<[name |-> "Checker boundary: src files must stay under 2000 LOC",
       base |-> CheckerSrc, limit |-> CheckerLineLimit]>>

QuarantineName == "Solver TypeData construction must stay in interner files"

\* the names of all rules in the order main reaches them
RuleOrder ==
    [k \in 1..Len(CHECKS) |-> CHECKS[k].name]
      \o [k \in 1..Len(MANIFEST_CHECKS) |-> MANIFEST_CHECKS[k].name]
      \o [k \in 1..Len(LINE_LIMIT_CHECKS) |-> LINE_LIMIT_CHECKS[k].name]
      \o <<QuarantineName>>

\* the hits of a manifest rule: the lines of the manifest the pattern matches
ManifestHits(text, pattern, rel) ==
    LET lines == splitlines(text)
        ms    == Ascending({i \in 1..Len(lines) : PatternSearch(pattern, lines[i])},
                           1, Len(lines))
    IN  [j \in 1..Len(ms) |-> HitString(rel, ms[j])]

\* if not base.exists(): continue
IfExists_ElseReported(exists, name, hits) == IF exists THEN hits ELSE <<<<name, ":", "0">>>>

IfExists(exists, name, hits) == IF exists THEN hits ELSE <<>>

AddGroup_Deduplicated(groups, name, hits) ==
    LET seen(h) == \E g \in 1..Len(groups) : \E k \in 1..Len(groups[g].hits) :
                       groups[g].hits[k] = h
        NotSeen(h) == ~seen(h)
        fresh == SelectSeq(hits, NotSeen)
    IN  IF fresh # <<>> THEN Append(groups, [name |-> name, hits |-> fresh]) ELSE groups

\* if hits: failures.append((name, hits))
AddGroup_Always(groups, name, hits) == Append(groups, [name |-> name, hits |-> hits])

AddGroup(groups, name, hits) ==
    IF hits # <<>> THEN Append(groups, [name |-> name, hits |-> hits]) ELSE groups

\* "failed" if failures else "passed"
Status_TwoGroups(groups) == IF Len(groups) > 1 THEN "failed" ELSE "passed"

Status(groups) == IF groups # <<>> THEN "failed" ELSE "passed"

\* return 0 if not failures else 1
ExitCode(groups) == IF groups = <<>> THEN 0 ELSE 1

\* json.dumps(payload, indent=2): the members in the order of the dict
JsonDumps(p) ==
    <<"{", "\"status\": ", p.status, "\"total_hits\": ", p.total_hits,
      "\"failures\": ", [k \in 1..Len(p.failures) |->
                           <<"{", "\"name\": ", p.failures[k].name,
                             "\"hits\": ", p.failures[k].hits, "}">>], "}">>

\* hits[:200] and the note on the rest
ListingCap == 200

GroupListing_Uncapped(group) ==
    <<<<"- ", group.name, ":">>>>
      \o [k \in 1..Len(group.hits) |-> <<"  - ", group.hits[k]>>]

GroupListing(group) ==
    <<<<"- ", group.name, ":">>>>
      \o [k \in 1..(IF Len(group.hits) > ListingCap THEN ListingCap ELSE Len(group.hits)) |->
            <<"  - ", group.hits[k]>>]
      \o (IF Len(group.hits) > ListingCap
          THEN <<<<"  - ... and ", Len(group.hits) - ListingCap, " more">>>>
          ELSE <<>>)

Listing(groups) ==
    <<<<"ARCH GUARD FAILURES:">>>> \o Concat([k \in 1..Len(groups) |-> GroupListing(groups[k])])

\* one rule done: its hits are counted and, if there are any, its group added
Record(name, hits, nextpc, nextidx) ==
    /\ visited' = Append(visited, [name |-> name, hits |-> hits])
    /\ total_hits' = total_hits + Len(hits)
    /\ failures' = AddGroup(failures, name, hits)
    /\ pc' = nextpc
    /\ idx' = nextidx

\* an exception leaves main: the interpreter prints the traceback to stderr
\* and exits with status 1
Raise_ExitZero ==
    /\ pc' = "raised"
    /\ exit_code' = 0

Raise ==
    /\ pc' = "raised"
    /\ exit_code' = 1

MainContentCheck ==
    /\ mode = "main" /\ pc = "CHECKS"
    /\ LET rule == CHECKS[idx]
           more == idx < Len(CHECKS)
       IN  \E o \in Orders(iter_rs_files(fs, rule.base)) :
               Record(rule.name,
                      IfExists(rule.base \in dirs, rule.name,
                               scan(fs, o, rule.pattern, rule.excludes)),
                      IF more THEN "CHECKS" ELSE "MANIFEST_CHECKS",
                      IF more THEN idx + 1 ELSE 1)
    /\ UNCHANGED <<mode, tok, fm, fs, walk, ll_limit, result, dirs, can_write, args,
                   payload, report_file, stdout, exit_code>>

MainManifestCheck ==
    /\ mode = "main" /\ pc = "MANIFEST_CHECKS"
    /\ LET rule == MANIFEST_CHECKS[idx]
           more == idx < Len(MANIFEST_CHECKS)
       IN  /\ rule.manifest_path \in DOMAIN fs => fs[rule.manifest_path].readable
           /\ Record(rule.name,
                     IfExists(rule.manifest_path \in DOMAIN fs, rule.name,
                              ManifestHits(Text(fs[rule.manifest_path]), rule.pattern,
                                           rule.manifest_path)),
                     IF more THEN "MANIFEST_CHECKS" ELSE "LINE_LIMIT_CHECKS",
                     IF more THEN idx + 1 ELSE 1)
    /\ UNCHANGED <<mode, tok, fm, fs, walk, ll_limit, result, dirs, can_write, args,
                   payload, report_file, stdout, exit_code>>

\* manifest_path.read_text raises OSError: nothing catches it
MainManifestUnreadable ==
    /\ mode = "main" /\ pc = "MANIFEST_CHECKS"
    /\ MANIFEST_CHECKS[idx].manifest_path \in DOMAIN fs
    /\ ~fs[MANIFEST_CHECKS[idx].manifest_path].readable
    /\ Raise
    /\ UNCHANGED <<mode, tok, fm, fs, walk, ll_limit, result, dirs, can_write, args,
                   idx, visited, failures, total_hits, payload, report_file, stdout>>

MainLineLimitCheck ==
    /\ mode = "main" /\ pc = "LINE_LIMIT_CHECKS"
    /\ LET rule == LINE_LIMIT_CHECKS[idx]
           more == idx < Len(LINE_LIMIT_CHECKS)
       IN  \E o \in Orders(iter_rs_files(fs, rule.base)) :
               Record(rule.name,
                      IfExists(rule.base \in dirs, rule.name,
                               scan_line_limits(fs, o, rule.limit)),
                      IF more THEN "LINE_LIMIT_CHECKS" ELSE "quarantine",
                      IF more THEN idx + 1 ELSE 1)
    /\ UNCHANGED <<mode, tok, fm, fs, walk, ll_limit, result, dirs, can_write, args,
                   payload, report_file, stdout, exit_code>>

MainQuarantine ==
    /\ mode = "main" /\ pc = "quarantine"
    /\ \E o \in Orders(iter_rs_files(fs, SolverBase)) :
           Record(QuarantineName, scan_solver_typedata_quarantine(fs, o), "payload", 1)
    /\ UNCHANGED <<mode, tok, fm, fs, walk, ll_limit, result, dirs, can_write, args,
                   payload, report_file, stdout, exit_code>>

MainPayload ==
    /\ mode = "main" /\ pc = "payload"
    /\ payload' = [status |-> Status(failures),
                   total_hits |-> total_hits,
                   failures |-> failures]
    /\ pc' = "report"
    /\ UNCHANGED <<mode, tok, fm, fs, walk, ll_limit, result, dirs, can_write, args,
                   idx, visited, failures, total_hits, report_file, stdout, exit_code>>

MainNoReport ==
    /\ mode = "main" /\ pc = "report"
    /\ args.json_report = ""
    /\ pc' = "print"
    /\ UNCHANGED <<mode, tok, fm, fs, walk, ll_limit, result, dirs, can_write, args,
                   idx, visited, failures, total_hits, payload, report_file, stdout,
                   exit_code>>

MainWriteReport ==
    /\ mode = "main" /\ pc = "report"
    /\ args.json_report # "" /\ can_write
    /\ report_file' = JsonDumps(payload) \o <<"\n">>
    /\ pc' = "print"
    /\ UNCHANGED <<mode, tok, fm, fs, walk, ll_limit, result, dirs, can_write, args,
                   idx, visited, failures, total_hits, payload, stdout, exit_code>>

\* mkdir or write_text raises OSError: nothing catches it
MainWriteReportFails ==
    /\ mode = "main" /\ pc = "report"
    /\ args.json_report # "" /\ ~can_write
    /\ Raise
    /\ UNCHANGED <<mode, tok, fm, fs, walk, ll_limit, result, dirs, can_write, args,
                   idx, visited, failures, total_hits, payload, report_file, stdout>>

MainPrintJson ==
    /\ mode = "main" /\ pc = "print"
    /\ args.json
    /\ stdout' = JsonDumps(payload) \o <<"\n">>
    /\ exit_code' = ExitCode(failures)
    /\ pc' = "exit"
    /\ UNCHANGED <<mode, tok, fm, fs, walk, ll_limit, result, dirs, can_write, args,
                   idx, visited, failures, total_hits, payload, report_file>>

MainPrintFailures ==
    /\ mode = "main" /\ pc = "print"
    /\ ~args.json /\ failures # <<>>
    /\ stdout' = Listing(failures)
    /\ exit_code' = 1
    /\ pc' = "exit"
    /\ UNCHANGED <<mode, tok, fm, fs, walk, ll_limit, result, dirs, can_write, args,
                   idx, visited, failures, total_hits, payload, report_file>>

MainPrintPassed ==
    /\ mode = "main" /\ pc = "print"
    /\ ~args.json /\ failures = <<>>
    /\ stdout' = <<<<"Architecture guardrails passed.">>>>
    /\ exit_code' = 0
    /\ pc' = "exit"
    /\ UNCHANGED <<mode, tok, fm, fs, walk, ll_limit, result, dirs, can_write, args,
                   idx, visited, failures, total_hits, payload, report_file>>

\* ---- the corpus main runs on
File(parts, readable) == [parts |-> parts, readable |-> readable]

\* either no file at the path or one of the files
Maybe(rel, files) == {<<>>} \cup {(rel :> f) : f \in files}

CheckerTexts ==
    {<<>>,
     <<<<"S", "r", "c", "Y", "c">>, <<".", "N", "(">>>>,
     <<<<".", "N", "(">>, <<"\n">>, <<"/", "/">>, <<".", "N", "(">>>>,
     <<EmptyLines(CheckerLineLimit + 1)>>}

SolverTexts ==
    {<<>>,
     <<DirectCall>>,
     <<ImportAlias, <<"\n">>, AliasCallA, DirectCall, <<"\n">>, DirectCall>>,
     <<BlockCommentedCall>>}

ManifestTexts ==
    {<<<<"x">>, <<"\n">>>>,
     <<<<"x">>, <<"\n">>, <<" ", "tsz-checker", " ", "=">>, <<"\n">>, <<"tsz-checker", "=">>>>}

MainCorpus ==
    {a @@ b @@ c @@ d @@ e :
       a \in Maybe(CheckerA, {File(t, TRUE) : t \in CheckerTexts}
                                \cup {File(<<<<".", "N", "(">>>>, FALSE)}),
       b \in Maybe(CheckerB, {File(<<<<".", "N", "(">>>>, TRUE)}),
       c \in Maybe(SolverA, {File(t, TRUE) : t \in SolverTexts}),
       d \in Maybe(SolverIntern, {File(<<DirectCall>>, TRUE)}),
       e \in Maybe(EmitterManifest, {File(t, TRUE) : t \in ManifestTexts}
                                       \cup {File(<<<<"tsz-checker", "=">>>>, FALSE)})}

\* the directories of the rules that hold a file
DirsOf(files) ==
    {base \in {CheckerBase, CheckerSrc, SolverBase} : \E rel \in DOMAIN files : Under(base, rel)}

MainInitState ==
    /\ mode = "main"
    /\ fs \in MainCorpus
    /\ dirs \in {DirsOf(fs), {CheckerBase, CheckerSrc, SolverBase}}
    /\ args \in [json : BOOLEAN, json_report : {"", "out/report.json"}]
    /\ can_write \in (IF args.json_report = "" THEN {TRUE} ELSE BOOLEAN)
    /\ pc = "CHECKS" /\ idx = 1 /\ visited = <<>> /\ failures = <<>> /\ total_hits = 0
    /\ payload = NoPayload /\ report_file = <<>> /\ stdout = <<>> /\ exit_code = -1
    /\ tok = NoTok /\ fm = NoFm /\ walk = <<>> /\ ll_limit = 0 /\ result = <<>>

MainNext ==
    \/ MainContentCheck
    \/ MainManifestCheck
    \/ MainManifestUnreadable
    \/ MainLineLimitCheck
    \/ MainQuarantine
    \/ MainPayload
    \/ MainNoReport
    \/ MainWriteReport
    \/ MainWriteReportFails
    \/ MainPrintJson
    \/ MainPrintFailures
    \/ MainPrintPassed

SpecMain == MainInitState /\ [][MainNext]_vars

\* ---- the rules of main evaluated in any order
\* the paths under base in the order the directory walk yields them: walk
\* holds the order of the tree, which is part of the corpus
WalkOf(base) == LET under == iter_rs_files(fs, base)
                    Yielded(rel) == rel \in under
                IN  SelectSeq(walk, Yielded)

\* the hits of the k-th rule of RuleOrder on the corpus
RuleHits(k) ==
    IF k <= Len(CHECKS)
    THEN IfExists(CHECKS[k].base \in dirs, CHECKS[k].name,
                  scan(fs, WalkOf(CHECKS[k].base), CHECKS[k].pattern, CHECKS[k].excludes))
    ELSE IF k <= Len(CHECKS) + Len(MANIFEST_CHECKS)
    THEN LET rule == MANIFEST_CHECKS[k - Len(CHECKS)]
         IN  IfExists(rule.manifest_path \in DOMAIN fs, rule.name,
                      ManifestHits(Text(fs[rule.manifest_path]), rule.pattern,
                                   rule.manifest_path))
    ELSE IF k <= Len(CHECKS) + Len(MANIFEST_CHECKS) + Len(LINE_LIMIT_CHECKS)
    THEN LET rule == LINE_LIMIT_CHECKS[k - Len(CHECKS) - Len(MANIFEST_CHECKS)]
         IN  IfExists(rule.base \in dirs, rule.name,
                      scan_line_limits(fs, WalkOf(rule.base), rule.limit))
    ELSE scan_solver_typedata_quarantine(fs, WalkOf(SolverBase))

\* the k-th rule is a manifest rule whose manifest exists and cannot be read
ManifestRaises(k) ==
    /\ k > Len(CHECKS) /\ k <= Len(CHECKS) + Len(MANIFEST_CHECKS)
    /\ MANIFEST_CHECKS[k - Len(CHECKS)].manifest_path \in DOMAIN fs
    /\ ~fs[MANIFEST_CHECKS[k - Len(CHECKS)].manifest_path].readable

\* the rules not evaluated yet
Pending == {k \in 1..Len(RuleOrder) : \A v \in 1..Len(visited) : visited[v].name # RuleOrder[k]}

\* the groups put in the order of the configuration
InConfigurationOrder(groups) ==
    Concat([k \in 1..Len(RuleOrder) |->
              LET Named(group) == group.name = RuleOrder[k]
              IN  SelectSeq(groups, Named)])

\* some rule not evaluated yet is evaluated: its hits are counted and its
\* group, if it has hits, is added
AnyEvaluate ==
    /\ mode = "main" /\ pc = "rules"
    /\ \E k \in Pending :
          /\ ~ManifestRaises(k)
          /\ Record(RuleOrder[k], RuleHits(k), "rules", idx + 1)
    /\ UNCHANGED <<mode, tok, fm, fs, walk, ll_limit, result, dirs, can_write, args,
                   payload, report_file, stdout, exit_code>>

AnyManifestUnreadable ==
    /\ mode = "main" /\ pc = "rules"
    /\ \E k \in Pending : ManifestRaises(k)
    /\ Raise
    /\ UNCHANGED <<mode, tok, fm, fs, walk, ll_limit, result, dirs, can_write, args,
                   idx, visited, failures, total_hits, payload, report_file, stdout>>

\* every rule is evaluated: the groups are put in configuration order and
\* the verdict is built from them
AnyAssemble ==
    /\ mode = "main" /\ pc = "rules"
    /\ Pending = {}
    /\ failures' = InConfigurationOrder(failures)
    /\ payload' = [status |-> Status(failures'),
                   total_hits |-> total_hits,
                   failures |-> failures']
    /\ pc' = "report"
    /\ UNCHANGED <<mode, tok, fm, fs, walk, ll_limit, result, dirs, can_write, args,
                   idx, visited, total_hits, report_file, stdout, exit_code>>

CheckerSubB == CheckerSrc \o <<"/", "sub", "/", "b.rs">>

AnyCorpus ==
    {a @@ b @@ c @@ e :
       a \in Maybe(CheckerA, {File(<<<<"S", "r", "c", "Y", "c">>, <<".", "N", "(">>>>, TRUE)}),
       b \in Maybe(CheckerSubB, {File(<<<<".", "N", "(">>>>, TRUE)}),
       c \in {(SolverA :> File(t, TRUE)) : t \in {<<DirectCall>>, <<BlockCommentedCall>>}},
       e \in Maybe(EmitterManifest, {File(<<<<"tsz-checker", "=">>>>, TRUE),
                                      File(<<<<"tsz-checker", "=">>>>, FALSE)})}

AnyInitState ==
    /\ mode = "main"
    /\ fs \in AnyCorpus
    /\ walk \in Orders({rel \in DOMAIN fs : rel[Len(rel)] \in RsNames})
    /\ dirs = DirsOf(fs)
    /\ args \in {[json |-> TRUE, json_report |-> ""],
                 [json |-> FALSE, json_report |-> "out/report.json"]}
    /\ can_write \in (IF args.json_report = "" THEN {TRUE} ELSE BOOLEAN)
    /\ pc = "rules" /\ idx = 1 /\ visited = <<>> /\ failures = <<>> /\ total_hits = 0
    /\ payload = NoPayload /\ report_file = <<>> /\ stdout = <<>> /\ exit_code = -1
    /\ tok = NoTok /\ fm = NoFm /\ ll_limit = 0 /\ result = <<>>

AnyNext ==
    \/ AnyEvaluate
    \/ AnyManifestUnreadable
    \/ AnyAssemble
    \/ MainNoReport
    \/ MainWriteReport
    \/ MainWriteReportFails
    \/ MainPrintJson
    \/ MainPrintFailures
    \/ MainPrintPassed

SpecAny == AnyInitState /\ [][AnyNext]_vars

\* ---- main on a tree with long hit lists
\* n lines that the raw-interner pattern matches, n lines that the manifest
\* pattern matches
InternLines(n) == <<[k \in 1..(4 * n) |-> <<".", "N", "(", "\n">>[((k - 1) % 4) + 1]]>>

ManifestLines(n) == <<[k \in 1..(3 * n) |-> <<"tsz-checker", "=", "\n">>[((k - 1) % 3) + 1]]>>

\* the lengths of the hit lists: one hit, and around the cap of the listing
ListedLengths == {1, ListingCap - 1, ListingCap, ListingCap + 1, ListingCap + 2}

MainLongCorpus ==
    {a @@ c @@ e :
       a \in Maybe(CheckerA, {File(InternLines(n), TRUE) : n \in ListedLengths}),
       c \in Maybe(SolverA, {File(<<DirectCall>>, TRUE)}),
       e \in Maybe(EmitterManifest, {File(ManifestLines(ListingCap + 1), TRUE),
                                      File(ManifestLines(1), FALSE)})}

MainLongInitState ==
    /\ mode = "main"
    /\ fs \in MainLongCorpus
    /\ dirs = DirsOf(fs)
    /\ args \in [json : BOOLEAN, json_report : {"", "out/report.json"}]
    /\ can_write \in (IF args.json_report = "" THEN {TRUE} ELSE BOOLEAN)
    /\ pc = "CHECKS" /\ idx = 1 /\ visited = <<>> /\ failures = <<>> /\ total_hits = 0
    /\ payload = NoPayload /\ report_file = <<>> /\ stdout = <<>> /\ exit_code = -1
    /\ tok = NoTok /\ fm = NoFm /\ walk = <<>> /\ ll_limit = 0 /\ result = <<>>

SpecMainLong == MainLongInitState /\ [][MainNext]_vars

\* ------------------------------------------------------------ tokenizer claims
InteriorRoles == {"string", "char", "raw_string"}

DelimiterRoles == {"open", "close"}

CommentRoles == {"line_comment", "block_comment"}

\* C2: the projection has the length of the input and a newline exactly
\* where the input has one, at every loop head and at the return, also when
\* the input ends inside an unterminated comment or literal.
C2_SameLengthSameNewlines ==
    /\ Len(tok.out) = tok.i
    /\ tok.i <= Len(tok.chars)
    /\ \A k \in 1..Len(tok.out) : (tok.out[k] = "\n") <=> (tok.chars[k] = "\n")
    /\ mode = "returned" => Len(tok.out) = Len(tok.chars)

\* the input ended inside a comment or a literal that holds a newline
C2_Witness ==
    /\ mode = "returned"
    /\ tok.state \in {"block_comment", "string", "char", "raw_string"}
    /\ \E k \in 1..Len(tok.out) :
          tok.out[k] = "\n" /\ tok.role[k] \in {"block_comment", "string", "char", "raw_string"}

NoCommentNoLiteral(text) ==
    /\ \A k \in 1..Len(text) : text[k] \notin {"\"", "'"}
    /\ \A k \in 1..(Len(text) - 1) : ~(text[k] = "/" /\ text[k + 1] \in {"/", "*"})

\* C4: every character read in state code is copied unchanged, every
\* character of a line or block comment, markers included, is a blank unless
\* it is a newline, and a text without comments and literals projects to
\* itself.
C4_CodeKeptCommentsBlanked ==
    /\ \A k \in 1..Len(tok.out) : tok.role[k] = "code" => tok.out[k] = tok.chars[k]
    /\ \A k \in 1..Len(tok.out) :
          tok.role[k] \in CommentRoles =>
              tok.out[k] = (IF tok.chars[k] = "\n" THEN "\n" ELSE " ")
    /\ (mode = "returned" /\ NoCommentNoLiteral(tok.chars)) => tok.out = tok.chars

\* a text with code followed by a comment that holds a non-blank character
C4_Witness ==
    /\ mode = "returned"
    /\ \E k \in 1..Len(tok.out) : tok.role[k] = "code" /\ tok.chars[k] = "x"
    /\ \E k \in 1..Len(tok.out) : tok.role[k] \in CommentRoles /\ tok.chars[k] = "x"

\* ---------------------------------------------------- find_matches claims
\* C1: every line number find_matches reports is between 1 and the number
\* of lines of the original file, and it is the number the quarantine scan
\* gives (1 + the newlines before it) to a position where the pattern matches.
C1_LineNumbersOfOriginalFile ==
    mode = "returned" =>
        \A k \in 1..Len(fm.matches) :
            /\ fm.matches[k] \in 1..FileLineCount(fm.file_text)
            /\ \E p \in 1..Len(fm.file_text) :
                 /\ PatternSearchAt(fm.pattern, fm.file_text, p)
                 /\ QuarantineLine(fm.file_text, p) = fm.matches[k]

\* C6: a file with a segment in the excluded directories, or with its path in
\* the excluded files, yields no hit whatever its content, and the pattern
\* is evaluated on none of its lines.
C6_ExcludedFileYieldsNothing ==
    (/\ mode = "returned"
     /\ \/ \E k \in 1..Len(fm.rel) :
             fm.rel[k] # "/" /\ fm.rel[k] \in fm.excludes.exclude_dirs
        \/ fm.rel \in fm.excludes.exclude_files)
        => (fm.matches = <<>> /\ fm.evals = {})

\* a file under an excluded directory that is not named in the excluded
\* files and holds a line the pattern matches
C6_Witness ==
    /\ mode = "returned"
    /\ \E k \in 1..Len(fm.rel) : fm.rel[k] \in fm.excludes.exclude_dirs
    /\ fm.rel \notin fm.excludes.exclude_files
    /\ \E p \in 1..Len(fm.file_text) : PatternSearchAt(fm.pattern, fm.file_text, p)
    /\ fm.matches = <<>>

\* ------------------------------------------------- quarantine scan claims
\* the hits of the result that name the file rel
HitsOf(rel) == {j \in 1..Len(result) : StartsWith(result[j], 1, rel \o <<":">>)}

\* C5: a file whose construction calls all lie inside line or block
\* comments, whatever lifetimes, char and string literals and other code it
\* holds, has no quarantine hit.
C5_CommentedCallsYieldNoHit ==
    mode = "returned" =>
        \A rel \in DOMAIN fs :
            (\A k \in 1..Len(fs[rel].parts) : fs[rel].parts[k] \notin CallFragments)
                => HitsOf(rel) = {}

\* C7: the result names no path:line twice, and a line of a scanned file on
\* which one or several construction calls start, through whichever
\* spellings, is named exactly once.
C7_EachLineReportedOnce ==
    mode = "returned" =>
        /\ \A i, j \in 1..Len(result) : result[i] = result[j] => i = j
        /\ \A rel \in DOMAIN fs :
             (~QuarantineSkipped(rel) /\ fs[rel].readable) =>
                 LET projection == strip_rust_comments(Text(fs[rel]))
                     starts == DirectStarts(projection)
                                 \cup UNION {AliasStarts(projection, a) : a \in Aliases(projection)}
                 IN  \A p \in starts :
                         Cardinality({j \in 1..Len(result) :
                             result[j] = HitString(rel, QuarantineLine(projection, p))}) = 1

\* a call through an imported alias of TypeData and a direct call start on
\* the same line of a.rs, which is reported once
C7_Witness ==
    /\ mode = "returned"
    /\ LET projection == strip_rust_comments(Text(fs[SolverA]))
       IN  \E a \in Aliases(projection) \ {<<"T">>} :
               \E p \in AliasStarts(projection, a), q \in DirectStarts(projection) :
                   /\ p # q
                   /\ QuarantineLine(projection, p) = QuarantineLine(projection, q)
    /\ Cardinality(HitsOf(SolverA)) = 1

\* ------------------------------------------------ line-limit scan claims
\* the number of physical lines of a text: its newlines, and one more for a
\* last line that no newline ends
PhysicalLines(text) ==
    Cardinality({k \in 1..Len(text) : text[k] = "\n"})
      + (IF Len(text) > 0 /\ text[Len(text)] # "\n" THEN 1 ELSE 0)

\* C10: scan_line_limits reports a file it could read exactly when its
\* physical line count is greater than the limit, once, as
\* "<rel>:<count> lines (limit <limit>)"; a file with exactly limit lines, and
\* a file whose read failed, is not reported.
C10_ReportedIffOverLimit ==
    mode = "returned" =>
        \A rel \in DOMAIN fs :
            LET n == PhysicalLines(Text(fs[rel]))
            IN  IF fs[rel].readable /\ n > ll_limit
                THEN /\ Cardinality(HitsOf(rel)) = 1
                     /\ \A j \in HitsOf(rel) :
                          result[j] = rel \o <<":">> \o Digits(n)
                                        \o <<" lines (limit ">> \o Digits(ll_limit) \o <<")">>
                ELSE HitsOf(rel) = {}

\* a file of 2001 lines scanned with the limit 2000 is reported once, while
\* the two-line file next to it is not
C10_Witness ==
    /\ mode = "returned"
    /\ ll_limit = CheckerLineLimit
    /\ PhysicalLines(Text(fs[CheckerA])) = CheckerLineLimit + 1
    /\ Cardinality(HitsOf(CheckerA)) = 1
    /\ HitsOf(CheckerB) = {}

\* ------------------------------------------------------------- main claims
\* the run has built its verdict
HasPayload == payload # NoPayload

\* main has returned, the process exits with its return value
Returned == pc = "exit"

\* an exception has left main
Aborted == pc = "raised"

NoRuleHit == \A k \in 1..Len(visited) : visited[k].hits = <<>>

\* C8 as stated: in every run that has a status the status is "failed" iff
\* total_hits > 0 iff the failures list is non-empty, the exit code is
\* non-zero exactly when the status is "failed", and a run with no hit ends
\* with status "passed", total_hits 0 and exit code 0.
C8_VerdictConsistentInEveryRun ==
    HasPayload /\ exit_code # -1 =>
        /\ (payload.status = "failed") <=> (payload.total_hits > 0)
        /\ (payload.status = "failed") <=> (payload.failures # <<>>)
        /\ (exit_code # 0) <=> (payload.status = "failed")
        /\ NoRuleHit => payload.status = "passed" /\ payload.total_hits = 0 /\ exit_code = 0

\* C8: whenever the verdict is built, its status is "failed" iff total_hits > 0
\* iff the failures list is non-empty; in every run from which main returns,
\* in the human-readable and in the machine-readable mode alike, the exit code
\* is non-zero exactly when the status is "failed", and with no hit the status
\* is "passed", total_hits is 0 and the exit code is 0; in a run that an
\* exception ends, the exit code is non-zero whatever the status, and nothing
\* has been printed.
C8_VerdictConsistentWhenMainReturns ==
    /\ HasPayload =>
        /\ payload.status \in {"passed", "failed"}
        /\ (payload.status = "failed") <=> (payload.total_hits > 0)
        /\ (payload.status = "failed") <=> (payload.failures # <<>>)
    /\ Returned =>
        /\ HasPayload
        /\ exit_code \in {0, 1}
        /\ (exit_code # 0) <=> (payload.status = "failed")
        /\ NoRuleHit => payload.status = "passed" /\ payload.total_hits = 0 /\ exit_code = 0
    /\ Aborted => exit_code # 0 /\ stdout = <<>>
    /\ ~Returned /\ ~Aborted => exit_code = -1

\* a returned run with exactly one hit, its report written
C8_Witness ==
    /\ Returned
    /\ payload.status = "failed" /\ payload.total_hits = 1
    /\ exit_code = 1
    /\ report_file # <<>>

RECURSIVE SumOfHits(_)
SumOfHits(groups) ==
    IF groups = <<>> THEN 0 ELSE Len(Head(groups).hits) + SumOfHits(Tail(groups))

HasHits(group) == group.hits # <<>>

\* C9: the rules are evaluated in the configured order (content rules, then
\* manifest rules, then line-limit rules, then the quarantine scan); the
\* failures list holds exactly the evaluated rules with a non-empty hit list,
\* in that order, never a group without hits; total_hits is the sum of the
\* group sizes; and the verdict is built only after every rule was evaluated
\* and carries this list and this total.
C9_GroupsInConfigurationOrder ==
    /\ Len(visited) <= Len(RuleOrder)
    /\ \A k \in 1..Len(visited) : visited[k].name = RuleOrder[k]
    /\ failures = SelectSeq(visited, HasHits)
    /\ \A k \in 1..Len(failures) : failures[k].hits # <<>>
    /\ total_hits = SumOfHits(failures)
    /\ HasPayload =>
        /\ Len(visited) = Len(RuleOrder)
        /\ payload.failures = failures
        /\ payload.total_hits = total_hits

\* a verdict with groups of a content rule, the manifest rule and the
\* quarantine scan, and a rule in between that has no hit
C9_Witness ==
    /\ Returned
    /\ Len(failures) >= 3
    /\ Len(failures) < Len(visited)
    /\ \E k \in 1..Len(visited) : k < Len(visited) /\ visited[k].hits = <<>>
    /\ total_hits > Len(failures)

\* ------------------------------------------------- alias following claims
\* What a file holds, told from the fragments it was written in.
NewlinesIn(part) == Cardinality({k \in 1..Len(part) : part[k] = "\n"})

RECURSIVE NewlinesBefore(_, _)
NewlinesBefore(parts, k) ==
    IF k <= 1 THEN 0 ELSE NewlinesBefore(parts, k - 1) + NewlinesIn(parts[k - 1])

\* the line on which the k-th fragment starts
LineOfPart(parts, k) == NewlinesBefore(parts, k) + 1

\* the k-th fragment starts inside a line comment opened by a fragment before it
InLineComment(parts, k) ==
    \E m \in 1..(k - 1) :
        /\ parts[m] = LineCommentedCall
        /\ \A n \in (m + 1)..(k - 1) : NewlinesIn(parts[n]) = 0

\* the fragments that are construction calls in code
RealCalls(parts) == {k \in 1..Len(parts) : parts[k] \in CallFragments /\ ~InLineComment(parts, k)}

\* a rename of TypeData to Al in code, plain or in a grouped import
RealImports(parts) ==
    {k \in 1..Len(parts) : parts[k] \in {ImportAlias, GroupedImport} /\ ~InLineComment(parts, k)}

\* C11: in a scanned file with an import rename of TypeData to an alias and,
\* later, a call .intern( whose argument alias:: stands on the next line, the
\* line on which .intern( starts is reported; and if that call is the only
\* construction call of the file, it is the only hit of the file, so the
\* line of the alias use is not reported.
C11_MultilineAliasCallHitAtCallLine ==
    mode = "returned" =>
        LET parts == fs[SolverA].parts
        IN  \A i \in RealImports(parts) : \A j \in RealCalls(parts) :
                (i < j /\ parts[j] = MultilineCallA) =>
                    /\ \E h \in HitsOf(SolverA) :
                         result[h] = HitString(SolverA, LineOfPart(parts, j))
                    /\ RealCalls(parts) = {j} =>
                         \A h \in HitsOf(SolverA) :
                             result[h] = HitString(SolverA, LineOfPart(parts, j))

\* a grouped import of three lines, then the call on line 3 with its
\* argument on line 4: the one hit of a.rs is a.rs:3
C11_Witness ==
    /\ mode = "returned"
    /\ fs[SolverA].parts = <<GroupedImport, MultilineCallA>>
    /\ Cardinality(HitsOf(SolverA)) = 1
    /\ \A h \in HitsOf(SolverA) : result[h] = HitString(SolverA, 3)

\* ------------------------------------------------ quarantine order claims
\* a < b for two sequences of code points: b continues a, or the first code
\* point in which they differ is smaller in a
LexLess(a, b) ==
    \E k \in 1..Len(b) :
        /\ k <= Len(a) + 1
        /\ \A m \in 1..(k - 1) : a[m] = b[m]
        /\ k = Len(a) + 1 \/ a[k] < b[k]

\* the files the quarantine scan reads
QuarantineRead == {rel \in iter_rs_files(fs, SolverBase) : ~QuarantineSkipped(rel) /\ fs[rel].readable}

\* the orders in which the alias set of a file can be iterated
AliasOrders(rel) == Orders(Aliases(strip_rust_comments(Text(fs[rel]))) \ {<<"T">>})

\* <<file, order, strings>>: the strings each file read passes to hits.add,
\* for each iteration order of its alias set
QuarantineAddsTable ==
    UNION {{<<rel, aliases, QuarantineAddsIn(rel, Text(fs[rel]), aliases)>> :
              aliases \in AliasOrders(rel)} : rel \in QuarantineRead}

\* C12: the list the quarantine scan returns is strictly ascending in the
\* code-point order of its path:line strings, and it is the list obtained
\* with any other order of the walk and any other iteration order of the
\* alias sets.
C12_SortedWhateverTheOrders ==
    mode = "returned" =>
        /\ \A i \in 1..(Len(result) - 1) : LexLess(Chars(result[i]), Chars(result[i + 1]))
        /\ LET table == QuarantineAddsTable
               read  == {t[1] : t \in table}
           IN  \A o \in Orders(iter_rs_files(fs, SolverBase)) :
                   \A pick \in {f \in [read -> table] : \A rel \in read : f[rel][1] = rel} :
                       SortedHits(Concat([k \in 1..Len(o) |->
                                            IF o[k] \in read THEN pick[o[k]][3] ELSE <<>>]))
                         = result

\* b.rs was walked before a.rs, a.rs uses two aliases, and b.rs:10 stands
\* before b.rs:2 in the result, after the hits of a.rs
C12_Witness ==
    /\ mode = "returned"
    /\ \E i, j \in 1..Len(walk) : i < j /\ walk[i] = SolverB /\ walk[j] = SolverA
    /\ Cardinality(AliasOrders(SolverA)) = 2
    /\ HitsOf(SolverA) # {}
    /\ \E i \in 1..(Len(result) - 1) :
         /\ result[i] = HitString(SolverB, 10)
         /\ result[i + 1] = HitString(SolverB, 2)
         /\ \A h \in HitsOf(SolverA) : h < i

\* ---------------------------------------------------- error handling claims
\* a report was requested and writing it fails
ReportUnwritable == args.json_report # "" /\ ~can_write

\* C13: in a run in which a report is requested and cannot be written,
\* nothing is ever printed (no JSON payload, no listing, no passed message),
\* main never gets past the write to its output and return statements, no
\* report file appears, and once the verdict is built the next step ends the
\* run with an exception and a non-zero exit code.
C13_ReportWriteFailureAborts ==
    ReportUnwritable =>
        /\ stdout = <<>>
        /\ report_file = <<>>
        /\ pc \notin {"print", "exit"}
        /\ exit_code # 0
        /\ (HasPayload /\ pc # "report") => (Aborted /\ exit_code = 1)

\* the verdict "passed" was built, the write failed, the run ended with exit
\* code 1 and an empty stdout
C13_Witness ==
    /\ ReportUnwritable
    /\ HasPayload /\ payload.status = "passed"
    /\ Aborted /\ exit_code = 1 /\ stdout = <<>>

\* the tree without the files that cannot be read
ReadableOnly == [rel \in {r \in DOMAIN fs : fs[r].readable} |-> fs[rel]]

\* the hits the k-th rule yields on the tree files, if its root exists
RuleHitsOn(files, k, hits) ==
    IF k <= Len(CHECKS)
    THEN IF CHECKS[k].base \notin dirs THEN hits = <<>>
         ELSE \E o \in Orders(iter_rs_files(files, CHECKS[k].base)) :
                  hits = scan(files, o, CHECKS[k].pattern, CHECKS[k].excludes)
    ELSE IF k = Len(CHECKS) + 1
    THEN hits = (IF EmitterManifest \in DOMAIN files
                 THEN ManifestHits(Text(files[EmitterManifest]), "emitter_manifest",
                                   EmitterManifest)
                 ELSE <<>>)
    ELSE IF k = Len(CHECKS) + 2
    THEN IF CheckerSrc \notin dirs THEN hits = <<>>
         ELSE \E o \in Orders(iter_rs_files(files, CheckerSrc)) :
                  hits = scan_line_limits(files, o, CheckerLineLimit)
    ELSE \E o \in Orders(iter_rs_files(files, SolverBase)) :
             hits = scan_solver_typedata_quarantine(files, o)

\* C14: a file that cannot be read, whichever rule reads it, never makes the
\* run raise, and every rule evaluated yields the hits it would yield if the
\* unreadable files were absent; the run goes on to build its verdict.
C14_UnreadableFilesAreSkipped ==
    /\ Aborted => HasPayload
    /\ \A k \in 1..Len(visited) : RuleHitsOn(ReadableOnly, k, visited[k].hits)

\* the root directory or the manifest of the k-th rule does not exist
RuleMissing(k) ==
    IF k <= Len(CHECKS) THEN CHECKS[k].base \notin dirs
    ELSE IF k = Len(CHECKS) + 1 THEN EmitterManifest \notin DOMAIN fs
    ELSE IF k = Len(CHECKS) + 2 THEN CheckerSrc \notin dirs
    ELSE SolverBase \notin dirs

\* the number of rules main has gone through when it stands at pc
RulesDone ==
    CASE pc = "CHECKS" -> idx - 1
      [] pc = "MANIFEST_CHECKS" -> Len(CHECKS) + idx - 1
      [] pc = "LINE_LIMIT_CHECKS" -> Len(CHECKS) + Len(MANIFEST_CHECKS) + idx - 1
      [] pc = "quarantine" -> Len(RuleOrder) - 1
      [] pc = "raised" /\ ~HasPayload -> Len(CHECKS)
      [] OTHER -> Len(RuleOrder)

\* C15: a rule whose root directory or manifest does not exist (for the
\* quarantine scan: whose root does not exist) is gone through with zero hits
\* and without a failure group; this never ends the run (only an existing
\* manifest can end it before the verdict); and every step goes through
\* exactly one rule, so the rules after a missing one are evaluated.
C15_MissingConfigurationIsSilent ==
    /\ \A k \in 1..Len(visited) :
           RuleMissing(k) =>
               /\ visited[k].hits = <<>>
               /\ \A g \in 1..Len(failures) : failures[g].name # visited[k].name
    /\ (Aborted /\ ~HasPayload) => ~RuleMissing(Len(CHECKS) + 1)
    /\ Len(visited) = RulesDone

\* the checker crate and the manifest are missing, the solver crate holds a
\* call: the run returns with the quarantine group alone
C15_Witness ==
    /\ Returned
    /\ CheckerBase \notin dirs /\ RuleMissing(Len(CHECKS) + 1)
    /\ Len(failures) = 1 /\ failures[1].name = QuarantineName
    /\ exit_code = 1

\* ------------------------------------------- quarantine exemption claims
\* the path has a segment tests below its first one, or its last segments
\* are those of an allow-listed path
ExemptPath(rel) ==
    \/ \E k \in 2..(Len(rel) - 1) : rel[k] = "tests"
    \/ \E allow \in SOLVER_TYPEDATA_QUARANTINE_ALLOWLIST :
           /\ Len(allow) <= Len(rel)
           /\ SubSeq(rel, Len(rel) - Len(allow) + 1, Len(rel)) = allow

\* C16: a file whose path ends with an allow-listed path or that lies under
\* a tests directory has no hit in the result of the quarantine scan,
\* whatever construction calls and renames it holds.
C16_ExemptFilesYieldNoHit ==
    mode = "returned" =>
        \A rel \in DOMAIN fs : ExemptPath(rel) => HitsOf(rel) = {}

\* a file under src/tests that renames TypeData and constructs through the
\* alias is walked and has no hit, while a.rs next to it is reported
C16_Witness ==
    /\ mode = "returned"
    /\ SolverTests \in DOMAIN fs
    /\ \E k \in 1..Len(walk) : walk[k] = SolverTests
    /\ fs[SolverTests].parts = <<ImportAlias, AliasCallA>>
    /\ HitsOf(SolverTests) = {}
    /\ HitsOf(SolverA) # {}

\* ------------------------------------------ quarantine completeness claims
\* the fragments that construct TypeData by its own name, in code
RealDirectCalls(parts) == {k \in RealCalls(parts) : parts[k] = DirectCall}

\* C17: every construction call .intern(TypeData:: that is code (not in a
\* comment) of a file the scan reads is reported at the line it starts on,
\* whatever comments, commented-out calls, lifetimes and literals stand
\* before or after it.
C17_RealCallsReportedAtTheirLine ==
    mode = "returned" =>
        \A rel \in DOMAIN fs :
            (~ExemptPath(rel) /\ fs[rel].readable) =>
                \A k \in RealDirectCalls(fs[rel].parts) :
                    \E h \in HitsOf(rel) :
                        result[h] = HitString(rel, LineOfPart(fs[rel].parts, k))

\* ------------------------------------------------ persisted report claims
\* a decimal numeral
IsNumeral(str) ==
    /\ str # <<>>
    /\ \A k \in 1..Len(str) : str[k] \in {"0", "1", "2", "3", "4", "5", "6", "7", "8", "9"}

\* "<relative-path>:<line>" for a file of the tree
IsLineHit(hit) ==
    \E rel \in DOMAIN fs :
        /\ StartsWith(hit, 1, rel \o <<":">>)
        /\ IsNumeral(SubSeq(hit, Len(rel) + 2, Len(hit)))

\* "<relative-path>:<count> lines (limit <limit>)" for a file of the tree
IsLimitHit(hit) ==
    \E rel \in DOMAIN fs : \E m \in (Len(rel) + 3)..(Len(hit) - 2) :
        /\ StartsWith(hit, 1, rel \o <<":">>)
        /\ IsNumeral(SubSeq(hit, Len(rel) + 2, m - 1))
        /\ hit[m] = " lines (limit "
        /\ IsNumeral(SubSeq(hit, m + 1, Len(hit) - 1))
        /\ hit[Len(hit)] = ")"

IsLimitRule(name) == \E k \in 1..Len(LINE_LIMIT_CHECKS) : LINE_LIMIT_CHECKS[k].name = name

\* C18: when a report path is requested, nothing is printed before the file
\* is written; once something is printed, in either mode, the file holds the
\* status, the total and the ordered groups {name, hits} of the verdict, and
\* in the machine-readable mode the text printed is the text of the file;
\* every hit of the verdict reads "<rel>:<line>", except the hits of a
\* line-limit rule, which read "<rel>:<count> lines (limit <limit>)".
C18_ReportHoldsThePrintedVerdict ==
    /\ (args.json_report # "" /\ report_file = <<>>) => stdout = <<>>
    /\ (args.json_report # "" /\ stdout # <<>>) =>
         /\ report_file[3] = payload.status
         /\ report_file[5] = payload.total_hits
         /\ Len(report_file[7]) = Len(payload.failures)
         /\ \A g \in 1..Len(payload.failures) :
                /\ report_file[7][g][3] = payload.failures[g].name
                /\ report_file[7][g][5] = payload.failures[g].hits
         /\ args.json => stdout = report_file
    /\ args.json_report = "" => report_file = <<>>
    /\ HasPayload =>
         \A g \in 1..Len(payload.failures) :
             \A h \in 1..Len(payload.failures[g].hits) :
                 IF IsLimitRule(payload.failures[g].name)
                 THEN IsLimitHit(payload.failures[g].hits[h])
                      /\ ~IsLineHit(payload.failures[g].hits[h])
                 ELSE IsLineHit(payload.failures[g].hits[h])

\* a human-readable run that wrote its report, with a group of a line-limit
\* rule and groups of other rules
C18_Witness ==
    /\ Returned /\ ~args.json
    /\ report_file # <<>> /\ stdout # <<>>
    /\ \E g \in 1..Len(payload.failures) : IsLimitRule(payload.failures[g].name)
    /\ Len(payload.failures) >= 3

\* -------------------------------------------------- content rule claims
\* the physical lines of a text: what stands between its newlines
PhysicalLinesOf(text) == LinesAt(text, {"\n"})

\* the path has an excluded directory among its segments or is an excluded file
ExcludedPath(rel, excludes) ==
    \/ \E k \in 1..Len(rel) : rel[k] # "/" /\ rel[k] \in excludes.exclude_dirs
    \/ rel \in excludes.exclude_files

\* C19: for a file that is not excluded, find_matches returns the numbers of
\* the physical lines on which the pattern matches (the comment lines left
\* aside when the rule ignores them), each once, in ascending order.
C19_HitsArePhysicalLineNumbers ==
    (mode = "returned" /\ ~ExcludedPath(fm.rel, fm.excludes)) =>
        LET lines == PhysicalLinesOf(fm.file_text)
            hit   == {i \in 1..Len(lines) :
                        /\ PatternSearch(fm.pattern, lines[i])
                        /\ ~(fm.excludes.ignore_comment_lines /\ IsCommentLine(lines[i]))}
        IN  /\ \A j \in 1..(Len(fm.matches) - 1) : fm.matches[j] < fm.matches[j + 1]
            /\ {fm.matches[j] : j \in 1..Len(fm.matches)} = hit

\* the first symbols of the line after its leading white space are //
BeginsWithCommentMarker(line) ==
    \E p \in 1..(Len(line) - 1) :
        /\ line[p] = "/" /\ line[p + 1] = "/"
        /\ \A m \in 1..(p - 1) : line[m] \in WS

\* C20: for a file that is not excluded, with ignore_comment_lines set the
\* pattern is tried on exactly the physical lines that do not begin, after
\* their leading white space, with //, and with it unset on every physical
\* line; every line tried on which the pattern matches is reported, also
\* when the match lies behind a // or inside /* */ on that line.
C20_OnlyLeadingCommentLinesSkipped ==
    (mode = "returned" /\ ~ExcludedPath(fm.rel, fm.excludes)) =>
        LET lines == PhysicalLinesOf(fm.file_text)
            tried == IF fm.excludes.ignore_comment_lines
                     THEN {i \in 1..Len(lines) : ~BeginsWithCommentMarker(lines[i])}
                     ELSE 1..Len(lines)
        IN  /\ fm.evals = tried
            /\ {fm.matches[j] : j \in 1..Len(fm.matches)}
                 = {i \in tried : PatternSearch(fm.pattern, lines[i])}

\* --------------------------------------------------- nested comment claims
\* the two characters at the read index
NextTwo(s) == <<At(s.chars, s.i), At(s.chars, s.i + 1)>>

\* C21: in state block_comment the depth is at least 1; a step taken in that
\* state adds 1 to the depth at an open marker and stays, takes 1 off at a
\* close marker and is in state code afterwards exactly if the depth has
\* come to zero, and keeps depth and state at any other character; and
\* every character read in that state is blanked.
C21_NestingDepth ==
    /\ [](tok.state = "block_comment" => tok.block_depth >= 1)
    /\ [](\A k \in 1..Len(tok.out) :
              tok.role[k] = "block_comment" => tok.out[k] \in {" ", "\n"})
    /\ [][(tok.state = "block_comment" /\ tok' # tok) =>
             IF NextTwo(tok) = <<"/", "*">>
             THEN /\ tok'.block_depth = tok.block_depth + 1
                  /\ tok'.state = "block_comment"
                  /\ tok'.i = tok.i + 2
             ELSE IF NextTwo(tok) = <<"*", "/">>
             THEN /\ tok'.block_depth = tok.block_depth - 1
                  /\ (tok'.state = "code") <=> (tok'.block_depth = 0)
                  /\ tok'.state \in {"code", "block_comment"}
                  /\ tok'.i = tok.i + 2
             ELSE /\ tok'.block_depth = tok.block_depth
                  /\ tok'.state = "block_comment"]_vars

\* of /*/**/*/ the first six characters are read: the comment was opened
\* twice and closed once, the depth is 1 and the state still block_comment
C21_Witness ==
    /\ mode = "tok"
    /\ tok.chars = <<"/", "*", "/", "*", "*", "/", "*", "/">>
    /\ tok.i = 6
    /\ tok.state = "block_comment" /\ tok.block_depth = 1
    /\ tok.out = <<" ", " ", " ", " ", " ", " ">>

\* ------------------------------------------------------- raw string claims
\* the number of fence characters that stand at index j and after it
MarkersFrom(chars, j) ==
    CHOOSE k \in 0..Len(chars) :
        /\ \A m \in 0..(k - 1) : At(chars, j + m) = "#"
        /\ At(chars, j + k) # "#"

\* a raw-string prefix stands at the read index: r, a fence, a quote
RawPrefixAt(s) ==
    /\ At(s.chars, s.i) = "r"
    /\ At(s.chars, s.i + 1 + MarkersFrom(s.chars, s.i + 1)) = "\""

\* a raw string is opened with the fence that follows the r, and is left only
\* for state code
RawStringOpensAndCloses ==
    /\ (tok.state = "code" /\ tok' # tok /\ RawPrefixAt(tok)) =>
           /\ tok'.state = "raw_string"
           /\ tok'.raw_hash_count = MarkersFrom(tok.chars, tok.i + 1)
    /\ (tok.state = "raw_string" /\ tok' # tok) =>
           /\ tok'.state \in {"raw_string", "code"}
           /\ tok'.raw_hash_count = tok.raw_hash_count

\* C23: a raw string with a fence of N characters is closed by a step
\* exactly if that step reads a quote followed by N fence characters: the
\* quote and exactly N fence characters are consumed and the state is code
\* afterwards; a quote followed by fewer than N does not close the raw
\* string and is read alone, and with N = 0 the first quote closes it.
C23_ClosedByQuoteAndNMarkers ==
    [][/\ RawStringOpensAndCloses
       /\ (tok.state = "raw_string" /\ tok' # tok) =>
            LET N      == tok.raw_hash_count
                closes == /\ At(tok.chars, tok.i) = "\""
                          /\ \A m \in 1..N : At(tok.chars, tok.i + m) = "#"
            IN  /\ (tok'.state = "code") <=> closes
                /\ tok'.i = tok.i + (IF closes THEN 1 + N ELSE 1)
                /\ (At(tok.chars, tok.i) = "\"" /\ MarkersFrom(tok.chars, tok.i + 1) < N)
                      => tok'.state = "raw_string"
                /\ (At(tok.chars, tok.i) = "\"" /\ N = 0) => tok'.state = "code"]_vars

\* r##""#"## is read to its end: the quote followed by one fence character
\* has not closed the raw string, the quote followed by two has
C23_Witness ==
    /\ mode = "returned"
    /\ tok.chars = <<"r", "#", "#", "\"", "\"", "#", "\"", "#", "#">>
    /\ tok.raw_hash_count = 2
    /\ tok.role = <<"open", "open", "open", "open", "raw_string", "raw_string",
                    "close", "close", "close">>
    /\ tok.state = "code"

\* ------------------------------------------------------------ escape claims
\* the opening quote of the string or char literal that position k of the
\* text lies in: the last position before k that opened a literal
OpenOf(s, k) == CHOOSE p \in 0..(k - 1) :
                    /\ p = 0 \/ s.role[p] = "open"
                    /\ \A q \in (p + 1)..(k - 1) : s.role[q] # "open"

\* the number of backslashes that stand immediately before position k, the
\* opening quote at position p not counted
BackslashesBefore(s, k, p) ==
    CHOOSE n \in 0..k :
        /\ \A m \in 1..n : k - m > p /\ s.chars[k - m] = "\\"
        /\ ~(k - n - 1 > p /\ s.chars[k - n - 1] = "\\")

\* the quote that ends a literal of the given state
QuoteOf(state) == IF state = "string" THEN "\"" ELSE "'"

\* C24: in a string or char literal a backslash is read together with the
\* character after it, whatever that is; the state is left only for code
\* and only by reading the quote of the literal's kind alone; so a quote of
\* that kind inside the literal stands after an odd number of backslashes
\* and the closing quote after an even number; and no character read in the
\* literal, comment markers included, is blanked or starts a comment.
C24_EscapedQuoteDoesNotClose ==
    /\ [](\A k \in 1..Len(tok.out) :
            /\ tok.role[k] \in {"string", "char"} =>
                 /\ tok.out[k] = tok.chars[k]
                 /\ tok.chars[k] = QuoteOf(tok.role[k]) =>
                      BackslashesBefore(tok, k, OpenOf(tok, k)) % 2 = 1
            /\ (tok.role[k] = "close" /\ tok.chars[k] = "'") =>
                 BackslashesBefore(tok, k, OpenOf(tok, k)) % 2 = 0
            /\ (tok.role[k] = "close" /\ tok.chars[k] = "\""
                  /\ tok.chars[OpenOf(tok, k)] = "\""
                  /\ (OpenOf(tok, k) = 1 \/ tok.role[OpenOf(tok, k) - 1] # "open")) =>
                 BackslashesBefore(tok, k, OpenOf(tok, k)) % 2 = 0)
    /\ [][(tok.state \in {"string", "char"} /\ tok' # tok) =>
            LET ch      == At(tok.chars, tok.i)
                escape  == ch = "\\" /\ tok.i + 1 < Len(tok.chars)
            IN  /\ tok'.state \in {tok.state, "code"}
                /\ (tok'.state = "code") <=> (ch = QuoteOf(tok.state))
                /\ tok'.i = tok.i + (IF escape THEN 2 ELSE 1)]_vars

\* the string "\"" is read to its end: the escaped quote has not closed it,
\* the quote after it has
C24_Witness ==
    /\ mode = "returned"
    /\ tok.chars = <<"\"", "\\", "\"", "\"">>
    /\ tok.role = <<"open", "string", "string", "close">>
    /\ tok.out = tok.chars
    /\ tok.state = "code"

\* ------------------------------------------------------ line comment claims
\* C25: a step taken in state line_comment reads one character; if it is a
\* newline, the newline is appended and the state is code afterwards; any
\* other character, a quote, a comment marker or a raw-string prefix
\* included, is appended as a blank and the state stays line_comment,
\* depth and fence unchanged.
C25_LineCommentEndsAtNewline ==
    [][(tok.state = "line_comment" /\ tok' # tok) =>
          LET ch == At(tok.chars, tok.i)
          IN  /\ tok'.i = tok.i + 1
              /\ tok'.block_depth = tok.block_depth
              /\ tok'.raw_hash_count = tok.raw_hash_count
              /\ IF ch = "\n"
                 THEN tok'.out = Append(tok.out, "\n") /\ tok'.state = "code"
                 ELSE tok'.out = Append(tok.out, " ") /\ tok'.state = "line_comment"]_vars

\* the line comment //" and its newline are read: the quote is blanked, the
\* newline kept and the state code
C25_Witness ==
    /\ mode = "returned"
    /\ tok.chars = <<"/", "/", "\"", "\n">>
    /\ tok.out = <<" ", " ", " ", "\n">>
    /\ tok.state = "code"

\* ---------------------------------------------------------- progress claims
\* the rest of the text holds nothing that ends the state the loop is in
NoCloserAhead(s) ==
    LET rest == {k \in s.i..(Len(s.chars) - 1) : TRUE}
    IN  CASE s.state = "line_comment"  -> \A k \in rest : At(s.chars, k) # "\n"
          [] s.state = "block_comment" -> \A k \in rest : At(s.chars, k) # "*"
          [] s.state = "string"        -> \A k \in rest : At(s.chars, k) # "\""
          [] s.state = "char"          -> \A k \in rest : At(s.chars, k) # "'"
          [] s.state = "raw_string"    -> \A k \in rest : At(s.chars, k) # "\""
          [] OTHER                     -> FALSE

\* C28: at every loop head the output is as long as the read index, which
\* is never beyond the end of the text; every iteration moves the read
\* index forward by at least one; the function returns on every input; and
\* once the rest of the text holds nothing that ends the comment or literal
\* the loop is in, the state is never code again.
C28_ProgressAndTermination ==
    /\ [](Len(tok.out) = tok.i /\ tok.i <= Len(tok.chars) /\ Len(tok.role) = tok.i)
    /\ [][tok' # tok => tok'.i > tok.i]_vars
    /\ <>(mode = "returned")
    /\ [](mode = "returned" => ~TokRunning(tok))
    /\ []((mode = "tok" /\ NoCloserAhead(tok)) => [](tok.state # "code"))

\* the function has returned from a text that ends inside a raw string
\* whose closing fence is too short
C28_Witness ==
    /\ mode = "returned"
    /\ tok.chars = <<"r", "#", "\"", "\"">>
    /\ tok.state = "raw_string"
    /\ tok.i = 4 /\ Len(tok.out) = 4

\* ------------------------------------------------- calls inside literals
\* the hits the scan returned for the file rel
HitStringsOf(rel) == {result[h] : h \in HitsOf(rel)}

CallsInProjection(parts) ==
    {k \in 1..Len(parts) :
        \/ parts[k] \in {DirectCall, StringCall, RawStringCall, CharCall}
        \/ parts[k] = AliasCallA /\ \E m \in 1..Len(parts) : parts[m] = StringImport
        \/ parts[k] = AliasCallB /\ \E m \in 1..Len(parts) : parts[m] = StringTypeAlias}

Holds(parts, f) == \E m \in 1..Len(parts) : parts[m] = f

\* the names bound to TypeData in the file itself: TypeData, Al if the file
\* renames TypeData to Al, Bo if the file declares type Bo = TypeData
DeclaredAliases(parts) ==
    {<<"T">>}
      \cup (IF Holds(parts, ImportAlias) THEN {<<"A">>} ELSE {})
      \cup (IF Holds(parts, TypeAlias) THEN {<<"B">>} ELSE {})

\* the calls of the file through a name of that set
CallsThrough(parts, names) ==
    {k \in 1..Len(parts) :
        \/ parts[k] = DirectCall
        \/ parts[k] = AliasCallA /\ <<"A">> \in names
        \/ parts[k] = AliasCallB /\ <<"B">> \in names}

\* C29: the alias set of a file is TypeData, the names the file itself binds
\* by TypeData as <id> and the names it declares by type <id> = TypeData;
\* a name declared as an alias of an alias is not in it and the renames of
\* another file are not in it; the hits of the file are the lines of its
\* calls through the names of that set.
C29_AliasSetIsPerFileAndSingleLevel ==
    mode = "returned" =>
        \A rel \in {SolverA, SolverB} :
            LET parts == fs[rel].parts
            IN  /\ Aliases(strip_rust_comments(Text(fs[rel]))) = DeclaredAliases(parts)
                /\ HitStringsOf(rel) =
                     {HitString(rel, LineOfPart(parts, k)) :
                        k \in CallsThrough(parts, DeclaredAliases(parts))}

\* a.rs renames TypeData to Al, declares Bo as an alias of Al and calls
\* through Bo, b.rs calls through Al and Bo: nothing is reported
C29_Witness ==
    /\ mode = "returned"
    /\ fs[SolverA].parts = <<ImportAlias, AliasOfAlias, AliasCallB>>
    /\ fs[SolverB].parts = <<AliasCallA, <<"\n">>, AliasCallB>>
    /\ result = <<>>

\* ------------------------------------------------ deduplication claims
\* the hits of the group of the verdict that has the given name
GroupHits(name) ==
    LET gs == {g \in 1..Len(payload.failures) : payload.failures[g].name = name}
    IN  IF gs = {} THEN <<>> ELSE payload.failures[CHOOSE g \in gs : TRUE].hits

\* how often x stands in the list
CountIn(list, x) == Cardinality({k \in 1..Len(list) : list[k] = x})

\* the hits of all groups of the verdict, as a set
DistinctHits ==
    UNION {{payload.failures[g].hits[k] : k \in 1..Len(payload.failures[g].hits)} :
             g \in 1..Len(payload.failures)}

\* the content rule k reads the file rel
ContentRuleReads(k, rel) ==
    /\ CHECKS[k].base \in dirs
    /\ Under(CHECKS[k].base, rel)
    /\ fs[rel].readable
    /\ ~ExcludedPath(rel, CHECKS[k].excludes)

\* C30: a line of a file that two content rules read and both patterns
\* match stands once in the group of each of the two rules; total_hits is
\* the sum of the group sizes, so such a line is counted twice and
\* total_hits is at least, and can be more than, the number of distinct
\* hits; inside the quarantine group no hit stands twice.
C30_NoCrossGroupDeduplication ==
    HasPayload =>
        /\ payload.total_hits = SumOfHits(payload.failures)
        /\ payload.total_hits >= Cardinality(DistinctHits)
        /\ \A k1, k2 \in 1..Len(CHECKS) : \A rel \in DOMAIN fs :
              (k1 # k2 /\ ContentRuleReads(k1, rel) /\ ContentRuleReads(k2, rel)) =>
                  LET lines == PhysicalLinesOf(Text(fs[rel]))
                  IN  \A ln \in 1..Len(lines) :
                          (PatternSearch(CHECKS[k1].pattern, lines[ln])
                             /\ PatternSearch(CHECKS[k2].pattern, lines[ln])) =>
                              /\ CountIn(GroupHits(CHECKS[k1].name), HitString(rel, ln)) = 1
                              /\ CountIn(GroupHits(CHECKS[k2].name), HitString(rel, ln)) = 1
        /\ \A h \in DistinctHits : CountIn(GroupHits(QuarantineName), h) <= 1

\* line 1 of a.rs stands in the groups of both content rules and is counted
\* twice
C30_Witness ==
    /\ HasPayload
    /\ CountIn(GroupHits(CHECKS[1].name), HitString(CheckerA, 1)) = 1
    /\ CountIn(GroupHits(CHECKS[2].name), HitString(CheckerA, 1)) = 1
    /\ payload.total_hits > Cardinality(DistinctHits)

\* ------------------------------------------------------- listing claims
\* the number of hits of a group that the listing prints
Shown(group) == IF Len(group.hits) > ListingCap THEN ListingCap ELSE Len(group.hits)

\* the number of lines the listing prints for a group: its header, the hits
\* shown and the note on the rest, if there is a rest
BlockLength(group) == 1 + Shown(group) + (IF Len(group.hits) > ListingCap THEN 1 ELSE 0)

\* the number of lines printed before the header of the g-th group
RECURSIVE BlockStart(_, _)
BlockStart(groups, g) ==
    IF g = 1 THEN 1 ELSE BlockStart(groups, g - 1) + BlockLength(groups[g - 1])

\* C27: the listing of a failed run in the human-readable mode is its
\* heading and then, for each group in order, the header of the group, its
\* first min(n, 200) hits in their order and, exactly if n > 200, one note
\* that tells n - 200; total_hits, the exit code and the report written hold
\* all n hits of every group.
C27_ListingCappedVerdictNot ==
    (Returned /\ ~args.json /\ failures # <<>>) =>
        /\ stdout[1] = <<"ARCH GUARD FAILURES:">>
        /\ Len(stdout) = BlockStart(failures, Len(failures)) + BlockLength(failures[Len(failures)])
        /\ \A g \in 1..Len(failures) :
              LET group == failures[g]
                  n     == Len(group.hits)
                  at    == BlockStart(failures, g)
              IN  /\ stdout[at + 1] = <<"- ", group.name, ":">>
                  /\ \A k \in 1..Shown(group) : stdout[at + 1 + k] = <<"  - ", group.hits[k]>>
                  /\ n > ListingCap =>
                       stdout[at + 2 + ListingCap] = <<"  - ... and ", n - ListingCap, " more">>
                  /\ BlockLength(group) = (IF n > ListingCap THEN ListingCap + 2 ELSE n + 1)
        /\ payload.total_hits = SumOfHits(failures)
        /\ payload.failures = failures
        /\ exit_code = 1
        /\ args.json_report # "" =>
              \A g \in 1..Len(failures) : report_file[7][g][5] = failures[g].hits

\* a human-readable run has printed the 200 first of 202 hits of a group
\* and the note on 2 more, and has written all 202 to the report
C27_Witness ==
    /\ Returned /\ ~args.json /\ args.json_report # ""
    /\ failures # <<>>
    /\ Len(failures[1].hits) = ListingCap + 2
    /\ stdout[ListingCap + 2] = <<"  - ", failures[1].hits[ListingCap]>>
    /\ stdout[ListingCap + 3] = <<"  - ... and ", 2, " more">>
    /\ Len(report_file[7][1][5]) = ListingCap + 2
    /\ payload.total_hits >= ListingCap + 2

\* -------------------------------------------------- rule independence claims
\* the groups of the sequential run: the rules taken in configuration order,
\* each with its hits on the corpus
RECURSIVE SequentialGroups(_)
SequentialGroups(k) ==
    IF k = 0 THEN <<>>
    ELSE LET before == SequentialGroups(k - 1)
             hits   == RuleHits(k)
         IN  IF hits = <<>> THEN before
             ELSE Append(before, [name |-> RuleOrder[k], hits |-> hits])

\* the rules were evaluated in another order than that of the configuration
OutOfOrder == \E v \in 1..Len(visited) : visited[v].name # RuleOrder[v]

\* C26: in whatever order the rules are evaluated, the hits recorded for a
\* rule are its hits on the corpus, whatever was recorded before; and the
\* verdict built after the groups are put in configuration order has the
\* groups, in order and content, the total and the status of the run that
\* takes the rules in configuration order.
C26_VerdictIndependentOfEvaluationOrder ==
    /\ \A v \in 1..Len(visited) : \A k \in 1..Len(RuleOrder) :
           visited[v].name = RuleOrder[k] => visited[v].hits = RuleHits(k)
    /\ HasPayload =>
         LET groups == SequentialGroups(Len(RuleOrder))
         IN  /\ payload.failures = groups
             /\ payload.total_hits = SumOfHits(groups)
             /\ payload.status = (IF groups = <<>> THEN "passed" ELSE "failed")
             /\ failures = groups

\* the quarantine scan was evaluated first and the content rules last; the
\* verdict holds the groups of both content rules, the manifest rule and the
\* quarantine scan in configuration order
C26_Witness ==
    /\ HasPayload
    /\ visited[1].name = QuarantineName
    /\ visited[Len(RuleOrder)].name = RuleOrder[1]
    /\ Len(payload.failures) = 4
    /\ payload.failures[1].name = RuleOrder[1]
    /\ payload.failures[4].name = QuarantineName

====
